---------------------------- MODULE Spec2Model ----------------------------
(***************************************************************************)
(* A model of gamecock's swap persistence layer (gamecock/db_handler.py),  *)
(* its entity resolver, the vw_swap_obligations read view and the          *)
(* obligation deriver of gamecock/swaps_analyzer.py.                       *)
(*                                                                         *)
(* The database is SQLite as DatabaseHandler opens it: integer primary     *)
(* keys are rowid aliases (a new row gets max(id) + 1), UNIQUE columns     *)
(* compare byte-wise (case-sensitively), and foreign keys are not enforced *)
(* because the engine never issues PRAGMA foreign_keys = ON.               *)
(***************************************************************************)
EXTENDS Integers, Sequences, FiniteSets, TLC

VARIABLES
    counterparties,   \* table counterparties: rows [id, name]
    securities,       \* table reference_securities: rows [id, identifier]
    swaps,            \* table swaps: rows [id, contract_id, counterparty_id, notional_amount]
    obligations,      \* table swap_obligations: rows [id, swap_id, obligation_type]
    triggers,         \* table obligation_triggers: rows [id, obligation_id, trigger_type, is_active]
    instruments,      \* table underlying_instruments: rows [id, swap_id, security_id]
    analyses,         \* table swap_analysis: rows [id, swap_id, risk_score]
    ret,              \* the last call: its operation, its key argument and what it returned
    last_notional,    \* history: per contract_id, the notional given by the last successful save_swap
    workers,          \* concurrent get_or_create_* calls: per worker, its position and locals
    contract,         \* the SwapContract handed to the obligation deriver
    derived,          \* what _extract_obligations returned for it
    risk,             \* the risk scorer: its inputs, the sub-scores and what it returned
    batch,            \* the file processor: the records of a file and the contracts made of them
    analyzer,         \* a SwapsAnalyzer: its loaded contracts, its cache and its last answer
    limiter           \* a RateLimiter, the clock and the threads inside acquire

tables == <<counterparties, securities, swaps, obligations, triggers, instruments, analyses>>
deriver == <<contract, derived>>
vars == <<counterparties, securities, swaps, obligations, triggers, instruments, analyses,
          ret, last_notional, workers, contract, derived, risk, batch, analyzer, limiter>>

---------------------------------------------------------------------------
(* Bounds of the model *)

MaxId == 2      \* no operation is called once its table would hand out an id above MaxId
MaxRows == 4    \* obligations, triggers, instruments and analyses hold at most MaxRows rows together
MaxLoaded == 2  \* no file is loaded once the analyzer holds MaxLoaded contracts
MaxQueries == 2 \* no read is made once the analyzer has queried the view MaxQueries times
MaxObligations == 4 \* _process_swap_details is not called once the table holds that many

---------------------------------------------------------------------------
(* Values *)

\* Strings that are compared ignoring case are sequences of character codes.
GS_upper == <<71, 83>>       \* "GS"
GS_lower == <<103, 115>>     \* "gs"
GME_upper == <<71, 77, 69>>  \* "GME"
GME_lower == <<103, 109, 101>> \* "gme"
Falsy == <<>>                \* "" or None: a name that Python's `not name` rejects

None == -1                   \* Python None / SQL NULL in a numeric field
NULL == 0                    \* SQL NULL in an id column of a joined row (ids start at 1)

EC_upper == <<201, 67>>      \* "ÉC": an upper-case letter outside ASCII
IBM_upper == <<73, 66, 77>>  \* "IBM"
USD_upper == <<85, 83, 68>>   \* "USD"
USD_lower == <<117, 115, 100>> \* "usd"

CounterpartyNames == {GS_upper, GS_lower, EC_upper}
SecurityIdentifiers == {GME_upper, GME_lower, IBM_upper}
ContractIds == {"c1", "c2"}
Notionals == {100, 200}
TriggerTypes == {"time_based", "credit_event"}
NoType == "none"             \* a NOT NULL text column left out of the input

\* Python's str.lower(): A..Z and the accented capitals (codes 192..222 but the
\* multiplication sign 215) are mapped to their small letters.
lower(s) ==
    [i \in DOMAIN s |-> IF s[i] \in 65..90 \/ (s[i] \in 192..222 /\ s[i] # 215)
                        THEN s[i] + 32 ELSE s[i]]

\* SQLite's built-in lower(), which func.lower renders to: only A..Z are mapped.
sql_lower(s) == [i \in DOMAIN s |-> IF s[i] \in 65..90 THEN s[i] + 32 ELSE s[i]]

Max(S) == CHOOSE x \in S : \A y \in S : y <= x
Min(S) == CHOOSE x \in S : \A y \in S : x <= y

\* SQLite's rowid allocation for INTEGER PRIMARY KEY without AUTOINCREMENT.
NextId(table) == IF table = {} THEN 1 ELSE Max({r.id : r \in table}) + 1

\* Query.first() on an unordered query: SQLite scans the table in rowid order.
first(rows) == CHOOSE r \in rows : r.id = Min({x.id : x \in rows})

Result(op, arg, status, id) == [op |-> op, arg |-> arg, status |-> status, id |-> id]

\* A call of the single-threaded program returns: no worker and no derivation is touched.
Return(op, arg, status, id) ==
    /\ ret' = Result(op, arg, status, id)
    /\ UNCHANGED <<workers, contract, derived, risk, batch, analyzer, limiter>>

---------------------------------------------------------------------------
(* Entity resolver *)

\* session.query(Counterparty).filter(func.lower(Counterparty.name) == name.lower())
counterparty_by_lower_name(name) ==
    {c \in counterparties : sql_lower(c.name) = lower(name)}

\* session.query(ReferenceSecurity).filter(func.lower(identifier) == identifier.lower())
security_by_lower_identifier(identifier) ==
    {s \in securities : sql_lower(s.identifier) = lower(identifier)}

\* A commit that breaks the UNIQUE constraint on the name raises IntegrityError,
\* which the handler rolls back, logs and raises again.
get_or_create_counterparty(name) ==
    LET found == counterparty_by_lower_name(name)
        new == [id |-> NextId(counterparties), name |-> name]
    IN  /\ IF found # {}
           THEN /\ UNCHANGED counterparties
                /\ Return("get_or_create_counterparty", name, "ok", first(found).id)
           ELSE IF \E c \in counterparties : c.name = name
           THEN /\ UNCHANGED counterparties
                /\ Return("get_or_create_counterparty", name, "raised", NULL)
           ELSE /\ counterparties' = counterparties \cup {new}
                /\ Return("get_or_create_counterparty", name, "ok", new.id)
        /\ UNCHANGED <<securities, swaps, obligations, triggers, instruments, analyses,
                       last_notional>>

get_or_create_security(identifier) ==
    LET found == security_by_lower_identifier(identifier)
        new == [id |-> NextId(securities), identifier |-> identifier]
    IN  /\ IF found # {}
           THEN /\ UNCHANGED securities
                /\ Return("get_or_create_security", identifier, "ok", first(found).id)
           ELSE IF \E s \in securities : s.identifier = identifier
           THEN /\ UNCHANGED securities
                /\ Return("get_or_create_security", identifier, "raised", NULL)
           ELSE /\ securities' = securities \cup {new}
                /\ Return("get_or_create_security", identifier, "ok", new.id)
        /\ UNCHANGED <<counterparties, swaps, obligations, triggers, instruments, analyses,
                       last_notional>>

---------------------------------------------------------------------------
(* Persistence layer: contracts *)

\* session.query(Counterparty).filter_by(name=counterparty_name): an exact match.
counterparty_by_name(name) == {c \in counterparties : c.name = name}

\* session.query(ReferenceSecurity).filter_by(identifier=security_identifier)
security_by_identifier(identifier) == {s \in securities : s.identifier = identifier}

\* session.query(Swap).filter_by(contract_id=...)
swap_by_contract_id(contract_id) == {s \in swaps : s.contract_id = contract_id}

\* The value the statement writes for a column: the dict's value when the key is
\* there; otherwise the row's old value (setattr is not called on an update) or
\* NULL (an insert of a column without default).
column(data, key, old) == IF key \in DOMAIN data THEN data[key] ELSE old

\* Mutant: the update path leaves the notional as it was.
updated_swap_keeps_notional(old, swap_data, counterparty_id) ==
    [old EXCEPT !.counterparty_id = counterparty_id]

\* The update path: setattr for every key of swap_data, the new counterparty_id
\* among them; the row keeps its id.
updated_swap(old, swap_data, counterparty_id) ==
    [old EXCEPT !.counterparty_id = counterparty_id,
                !.notional_amount = column(swap_data, "notional_amount", @)]

\* The insert path: Swap(**swap_data).
inserted_swap(swap_data, counterparty_id) ==
    [id |-> NextId(swaps),
     contract_id |-> swap_data.contract_id,
     counterparty_id |-> counterparty_id,
     notional_amount |-> column(swap_data, "notional_amount", None)]

\* swap_data is a Python dict: a record whose domain is the set of keys given.
save_swap(swap_data) ==
    LET counterparty_name == swap_data.counterparty
        found == counterparty_by_name(counterparty_name)
        created == [id |-> NextId(counterparties), name |-> counterparty_name]
        flushed == IF found = {} THEN counterparties \cup {created} ELSE counterparties
        counterparty == IF found = {} THEN created ELSE first(found)
        existing_swap == swap_by_contract_id(swap_data.contract_id)
        swap == IF existing_swap # {}
                THEN updated_swap(first(existing_swap), swap_data, counterparty.id)
                ELSE inserted_swap(swap_data, counterparty.id)
    IN  IF counterparty_name = Falsy
        THEN \* ValueError is not an SQLAlchemyError: it leaves the method, nothing is committed
             /\ Return("save_swap", swap_data.contract_id, "raised", NULL)
             /\ UNCHANGED <<tables, last_notional>>
        ELSE IF swap.notional_amount = None
        THEN \* NOT NULL constraint failed: IntegrityError, rollback, return None
             /\ Return("save_swap", swap_data.contract_id, "none", NULL)
             /\ UNCHANGED <<tables, last_notional>>
        ELSE /\ counterparties' = flushed
             /\ swaps' = (swaps \ existing_swap) \cup {swap}
             /\ Return("save_swap", swap_data.contract_id, "ok", swap.id)
             /\ last_notional' =
                   [last_notional EXCEPT ![swap_data.contract_id] =
                       IF "notional_amount" \in DOMAIN swap_data
                       THEN swap_data.notional_amount ELSE @]
             /\ UNCHANGED <<securities, obligations, triggers, instruments, analyses>>

\* The rows the ORM's cascade="all, delete-orphan" relationships reach from a swap.
obligations_of(swap_id) == {o \in obligations : o.swap_id = swap_id}
triggers_of(obligation_id) == {t \in triggers : t.obligation_id = obligation_id}
\* Mutant: the relationship to the instruments does not cascade.
instruments_of_no_cascade(swap_id) == {}

instruments_of(swap_id) == {u \in instruments : u.swap_id = swap_id}
analysis_of(swap_id) == {a \in analyses : a.swap_id = swap_id}

delete_swap(contract_id) ==
    LET found == swap_by_contract_id(contract_id)
        swap == first(found)
    IN  IF found # {}
        THEN /\ swaps' = swaps \ {swap}
             /\ obligations' = obligations \ obligations_of(swap.id)
             /\ triggers' = triggers \ UNION {triggers_of(o.id) : o \in obligations_of(swap.id)}
             /\ instruments' = instruments \ instruments_of(swap.id)
             /\ analyses' = analyses \ analysis_of(swap.id)
             /\ Return("delete_swap", contract_id, "true", NULL)
             /\ UNCHANGED <<counterparties, securities, last_notional>>
        ELSE /\ Return("delete_swap", contract_id, "false", NULL)
             /\ UNCHANGED <<tables, last_notional>>

---------------------------------------------------------------------------
(* Persistence layer: rows owned by a contract *)

\* Whether the database accepts a row whose foreign key is parent_id.
ForeignKeysEnforced == FALSE
foreign_key_ok(parent_id, parent_table) ==
    ForeignKeysEnforced => \E p \in parent_table : p.id = parent_id

add_obligation(swap_id, obligation_data) ==
    LET obligation == [id |-> NextId(obligations), swap_id |-> swap_id,
                       obligation_type |-> obligation_data.obligation_type]
    IN  IF obligation.obligation_type = NoType \/ ~foreign_key_ok(swap_id, swaps)
        THEN \* IntegrityError: rollback, return None
             /\ Return("add_obligation", swap_id, "none", NULL)
             /\ UNCHANGED <<tables, last_notional>>
        ELSE /\ obligations' = obligations \cup {obligation}
             /\ Return("add_obligation", swap_id, "ok", obligation.id)
             /\ UNCHANGED <<counterparties, securities, swaps, triggers, instruments,
                            analyses, last_notional>>

add_underlying_instrument(swap_id, instrument_data) ==
    LET security_identifier == instrument_data.identifier
        found == security_by_identifier(security_identifier)
        created == [id |-> NextId(securities), identifier |-> security_identifier]
        flushed == IF found = {} THEN securities \cup {created} ELSE securities
        security == IF found = {} THEN created ELSE first(found)
        instrument == [id |-> NextId(instruments), swap_id |-> swap_id,
                       security_id |-> security.id]
    IN  IF security_identifier = Falsy
        THEN \* ValueError leaves the method
             /\ Return("add_underlying_instrument", swap_id, "raised", NULL)
             /\ UNCHANGED <<tables, last_notional>>
        ELSE IF instrument_data.instrument_type = NoType \/ ~foreign_key_ok(swap_id, swaps)
        THEN \* IntegrityError: rollback (the flushed security included), return None
             /\ Return("add_underlying_instrument", swap_id, "none", NULL)
             /\ UNCHANGED <<tables, last_notional>>
        ELSE /\ securities' = flushed
             /\ instruments' = instruments \cup {instrument}
             /\ Return("add_underlying_instrument", swap_id, "ok", instrument.id)
             /\ UNCHANGED <<counterparties, swaps, obligations, triggers, analyses,
                            last_notional>>

add_obligation_trigger(obligation_id, trigger_data) ==
    LET trigger == [id |-> NextId(triggers), obligation_id |-> obligation_id,
                    trigger_type |-> trigger_data.trigger_type,
                    is_active |-> column(trigger_data, "is_active", TRUE)]
    IN  IF trigger.trigger_type = NoType \/ ~foreign_key_ok(obligation_id, obligations)
        THEN /\ Return("add_obligation_trigger", obligation_id, "none", NULL)
             /\ UNCHANGED <<tables, last_notional>>
        ELSE /\ triggers' = triggers \cup {trigger}
             /\ Return("add_obligation_trigger", obligation_id, "ok", trigger.id)
             /\ UNCHANGED <<counterparties, securities, swaps, obligations, instruments,
                            analyses, last_notional>>

save_analysis(swap_id, analysis_data) ==
    LET found == analysis_of(swap_id)
        old == first(found)
        analysis == IF found # {}
                    THEN [old EXCEPT !.risk_score = column(analysis_data, "risk_score", @)]
                    ELSE [id |-> NextId(analyses), swap_id |-> swap_id,
                          risk_score |-> column(analysis_data, "risk_score", None)]
    IN  IF ~foreign_key_ok(swap_id, swaps)
        THEN /\ Return("save_analysis", swap_id, "none", NULL)
             /\ UNCHANGED <<tables, last_notional>>
        ELSE /\ analyses' = (analyses \ found) \cup {analysis}
             /\ Return("save_analysis", swap_id, "ok", analysis.id)
             /\ UNCHANGED <<counterparties, securities, swaps, obligations, triggers,
                            instruments, last_notional>>

---------------------------------------------------------------------------
(* Two workers in get_or_create_counterparty / get_or_create_security *)

\* Each worker has its own session. The SELECT and the INSERT + COMMIT of one call
\* are two statements, and the other worker's statements can run between them.
resolve(kind, name) ==
    IF kind = "counterparty" THEN counterparty_by_lower_name(name)
    ELSE security_by_lower_identifier(name)

\* The rows the UNIQUE constraint on name / identifier compares the new row with.
unique_conflict(kind, name) ==
    IF kind = "counterparty" THEN counterparty_by_name(name)
    ELSE security_by_identifier(name)

\* .first(): the worker keeps the row it found, or None.
worker_select(w, kind, name) ==
    /\ workers[w].pc = "idle"
    /\ workers' = [workers EXCEPT ![w] =
          [pc |-> "selected", kind |-> kind, name |-> name,
           found |-> IF resolve(kind, name) = {} THEN NULL
                     ELSE first(resolve(kind, name)).id,
           result |-> "none", id |-> NULL]]
    /\ UNCHANGED <<tables, ret, last_notional, contract, derived, risk, batch, analyzer, limiter>>

\* `if not counterparty:` add and commit; an IntegrityError is rolled back, logged
\* and raised again. Then `return counterparty`.
worker_commit(w) ==
    LET me == workers[w]
        done(result, id) == [workers EXCEPT ![w] =
                                [me EXCEPT !.pc = "returned", !.result = result, !.id = id]]
    IN  /\ me.pc = "selected"
        /\ IF me.found # NULL
           THEN /\ workers' = done("ok", me.found)
                /\ UNCHANGED tables
           ELSE IF unique_conflict(me.kind, me.name) # {}
           THEN /\ workers' = done("raised", NULL)
                /\ UNCHANGED tables
           ELSE IF me.kind = "counterparty"
           THEN /\ counterparties' = counterparties \cup
                       {[id |-> NextId(counterparties), name |-> me.name]}
                /\ workers' = done("ok", NextId(counterparties))
                /\ UNCHANGED <<securities, swaps, obligations, triggers, instruments,
                               analyses>>
           ELSE /\ securities' = securities \cup
                       {[id |-> NextId(securities), identifier |-> me.name]}
                /\ workers' = done("ok", NextId(securities))
                /\ UNCHANGED <<counterparties, swaps, obligations, triggers, instruments,
                               analyses>>
        /\ UNCHANGED <<ret, last_notional, contract, derived, risk, batch, analyzer, limiter>>

---------------------------------------------------------------------------
(* Deriving obligations from a contract: SwapsAnalyzer._extract_obligations *)

SwapType == {"credit_default", "interest_rate", "total_return", "currency",
             "commodity", "equity", "other"}

PaymentFrequency == {"daily", "weekly", "monthly", "quarterly", "semi_annual",
                     "annual", "at_maturity"}

\* Amounts and rates are exact fractions <<numerator, denominator>> in lowest
\* terms; the rounding of Python's float division is not modelled.
NoContract == [swap_type |-> "none"]
NoRisk == [done |-> FALSE]
NoBatch == [done |-> FALSE]
NoAnalyzer == [done |-> FALSE]
NoLimiter == [done |-> FALSE]
NotDerived == [done |-> FALSE, obligations |-> <<>>, triggers |-> <<>>]

RECURSIVE gcd(_, _)
gcd(a, b) == IF b = 0 THEN a ELSE gcd(b, a % b)

fraction(n, d) == IF n = 0 THEN <<0, 1>> ELSE <<n \div gcd(n, d), d \div gcd(n, d)>>

\* Python truthiness of an Optional[float]: None and 0.0 are both false.
\* fixed_rate = None is the empty tuple here.
NoRate == <<>>

truthy(rate) == rate # NoRate /\ rate[1] # 0

is_leap(year) == (year % 4 = 0 /\ year % 100 # 0) \/ year % 400 = 0

days_in_month(year, month) ==
    IF month = 2 THEN (IF is_leap(year) THEN 29 ELSE 28)
    ELSE IF month \in {4, 6, 9, 11} THEN 30 ELSE 31

\* date + relativedelta(months=k): the month moves, the day is clipped to the
\* length of the month reached. relativedelta(years=1) clips the same way.
relativedelta(start_date, months) ==
    LET total == start_date.month - 1 + months
        year  == start_date.year + (total \div 12)
        month == (total % 12) + 1
    IN  [year |-> year, month |-> month,
         day |-> Min({start_date.day, days_in_month(year, month)})]

_get_payment_frequency_factor(frequency) ==
    CASE frequency = "daily"       -> 365
      [] frequency = "weekly"      -> 52
      [] frequency = "monthly"     -> 12
      [] frequency = "quarterly"   -> 4
      [] frequency = "semi_annual" -> 2
      [] frequency = "annual"      -> 1
      [] frequency = "at_maturity" -> 1
      [] OTHER                     -> 4

_calculate_next_payment_date(start_date, frequency) ==
    IF frequency = "monthly" THEN relativedelta(start_date, 1)
    ELSE IF frequency = "quarterly" THEN relativedelta(start_date, 3)
    ELSE IF frequency = "semi_annual" THEN relativedelta(start_date, 6)
    ELSE IF frequency = "annual" THEN relativedelta(start_date, 12)
    ELSE relativedelta(start_date, 3)

Date(year, month, day) == [year |-> year, month |-> month, day |-> day]
NoDate == [year |-> 0, month |-> 0, day |-> 0]

obligation(obligation_type, amount, due_date, status) ==
    [obligation_type |-> obligation_type, amount |-> amount, due_date |-> due_date,
     status |-> status]

\* The obligations generated for the swap type, before the explicit ones.
standard_obligations(swap) ==
    LET next_date == _calculate_next_payment_date(swap.effective_date,
                                                  swap.payment_frequency)
    IN  IF swap.swap_type = "interest_rate"
        THEN (IF truthy(swap.fixed_rate)
              THEN <<obligation("fixed_payment",
                        fraction(swap.notional_amount * swap.fixed_rate[1],
                                 100 * swap.fixed_rate[2]
                                     * _get_payment_frequency_factor(swap.payment_frequency)),
                        next_date, "pending")>>
              ELSE <<>>)
             \o (IF swap.floating_rate_index # Falsy
                 THEN <<obligation("floating_payment", fraction(0, 1), next_date,
                                   "pending")>>
                 ELSE <<>>)
        ELSE IF swap.swap_type = "credit_default"
        THEN <<obligation("premium_payment", fraction(swap.notional_amount, 100),
                          next_date, "pending"),
               obligation("protection_payment", fraction(swap.notional_amount, 1),
                          NoDate, "contingent")>>
        ELSE IF swap.swap_type = "total_return"
        THEN <<obligation("total_return_payment", fraction(0, 1), next_date,
                          "pending")>>
        ELSE <<>>

\* An entry of a list of additional_terms that is not a dict.
NotADict == [not_a_dict |-> TRUE]

isinstance_dict(info) == info # NotADict

\* The entries of a list that pass `if isinstance(info, dict)`, in order.
RECURSIVE dicts_of(_)
dicts_of(list) ==
    IF list = <<>> THEN <<>>
    ELSE (IF isinstance_dict(Head(list)) THEN <<Head(list)>> ELSE <<>>)
         \o dicts_of(Tail(list))

\* Mutant: the obligations of additional_terms are left out.
_extract_obligations_standard_only(swap) == standard_obligations(swap)

\* additional_terms is modelled by its 'obligations' and 'triggers' lists; a missing
\* key is the empty list.
_extract_obligations(swap) ==
    standard_obligations(swap) \o dicts_of(swap.additional_terms.obligations)

trigger(trigger_type, trigger_condition) ==
    [trigger_type |-> trigger_type, trigger_condition |-> trigger_condition,
     is_active |-> TRUE]

\* Mutant: a protection payment is triggered by its date like a regular payment.
standard_triggers_time_based(swap, obligation_data) ==
    IF obligation_data.obligation_type \in
          {"protection_payment", "fixed_payment", "floating_payment", "premium_payment"}
    THEN <<trigger("time_based", [on |-> "date", due_date |-> obligation_data.due_date])>>
    ELSE IF obligation_data.obligation_type = "total_return_payment"
    THEN <<trigger("performance", [on |-> "performance", entity |-> swap.reference_entity])>>
    ELSE <<>>

\* The trigger generated for the obligation type; trigger_condition is the f-string's
\* function name and argument.
standard_triggers(swap, obligation_data) ==
    IF obligation_data.obligation_type = "protection_payment"
    THEN <<trigger("credit_event", [on |-> "credit_event", entity |-> swap.reference_entity])>>
    ELSE IF obligation_data.obligation_type \in
               {"fixed_payment", "floating_payment", "premium_payment"}
    THEN <<trigger("time_based", [on |-> "date", due_date |-> obligation_data.due_date])>>
    ELSE IF obligation_data.obligation_type = "total_return_payment"
    THEN <<trigger("performance", [on |-> "performance", entity |-> swap.reference_entity])>>
    ELSE <<>>

_extract_obligation_triggers(swap, obligation_data) ==
    standard_triggers(swap, obligation_data) \o dicts_of(swap.additional_terms.triggers)

extract_obligations ==
    /\ ~derived.done
    /\ derived' =
          [done |-> TRUE,
           obligations |-> _extract_obligations(contract),
           triggers |-> [i \in DOMAIN _extract_obligations(contract) |->
                           _extract_obligation_triggers(contract,
                                                        _extract_obligations(contract)[i])]]
    /\ UNCHANGED <<tables, ret, last_notional, workers, contract, risk, batch, analyzer, limiter>>

---------------------------------------------------------------------------
(* Risk scoring: SwapsAnalyzer._calculate_risk_score and generate_risk_report *)

\* Real numbers are exact fractions <<numerator, denominator>> in lowest terms; the
\* rounding error of Python's floats is not modelled.
frac_add(a, b) == fraction(a[1] * b[2] + b[1] * a[2], a[2] * b[2])
frac_mul(a, b) == fraction(a[1] * b[1], a[2] * b[2])
frac_le(a, b) == a[1] * b[2] <= b[1] * a[2]
frac_min(a, b) == IF frac_le(a, b) THEN a ELSE b
frac_max(a, b) == IF frac_le(a, b) THEN b ELSE a

\* Mutant: a sub-score is not clamped.
clamp_missing(x) == x

\* min(100, max(0, x))
clamp(x) == frac_min(<<100, 1>>, frac_max(<<0, 1>>, x))

\* The largest r in lo..hi with r * r <= n.
RECURSIVE isqrt_between(_, _, _)
isqrt_between(n, lo, hi) ==
    IF lo = hi THEN lo
    ELSE LET mid == (lo + hi + 1) \div 2
         IN  IF mid * mid <= n THEN isqrt_between(n, mid, hi)
             ELSE isqrt_between(n, lo, mid - 1)

\* 10 * (total_notional / 1_000_000) ** 0.5 = sqrt(total_notional) / 100, the square
\* root cut to a whole number (exact for the perfect squares).
notional_root(total_notional) == fraction(isqrt_between(total_notional, 0, 46340), 100)

type_risk_weights ==
    [credit_default |-> 90, total_return |-> 80, equity |-> 70, commodity |-> 65,
     currency |-> 50, interest_rate |-> 40, other |-> 30]

RECURSIVE sum(_)
sum(list) == IF list = <<>> THEN 0 ELSE Head(list) + sum(Tail(list))

\* sum(type_scores) / len(type_scores) if type_scores else 30
type_score(swap_types) ==
    IF swap_types = <<>> THEN <<30, 1>>
    ELSE fraction(sum([i \in DOMAIN swap_types |-> type_risk_weights[swap_types[i]]]),
                  Len(swap_types))

weights == [notional |-> <<30, 100>>, maturity |-> <<20, 100>>,
            counterparty |-> <<25, 100>>, currency |-> <<15, 100>>, type |-> <<10, 100>>]

\* The five sub-scores, before they are weighted.
sub_scores(total_notional, avg_time_to_maturity, counterparty_concentration, currency_concentration, swap_types) ==
    [notional |-> clamp(notional_root(total_notional)),
     maturity |-> clamp(frac_mul(avg_time_to_maturity, <<10, 1>>)),
     counterparty |-> clamp(frac_mul(counterparty_concentration, <<100, 1>>)),
     currency |-> clamp(frac_mul(currency_concentration, <<100, 1>>)),
     type |-> type_score(swap_types)]

\* round(x, 2): to the nearest hundredth, a tie to the even one.
round2(x) ==
    LET n == x[1] * 100
        q == n \div x[2]
        r == n % x[2]
    IN  fraction(IF 2 * r > x[2] \/ (2 * r = x[2] /\ q % 2 = 1) THEN q + 1 ELSE q, 100)

weighted(scores) ==
    frac_add(frac_mul(scores.notional, weights.notional),
    frac_add(frac_mul(scores.maturity, weights.maturity),
    frac_add(frac_mul(scores.counterparty, weights.counterparty),
    frac_add(frac_mul(scores.currency, weights.currency),
             frac_mul(scores.type, weights.type)))))

_calculate_risk_score(total_notional, avg_time_to_maturity, counterparty_concentration, currency_concentration, swap_types) ==
    round2(frac_min(<<100, 1>>, frac_max(<<0, 1>>,
        weighted(sub_scores(total_notional, avg_time_to_maturity,
                            counterparty_concentration, currency_concentration,
                            swap_types)))))

\* A call of _calculate_risk_score with the arguments held in risk.
calculate_risk_score ==
    /\ ~risk.done
    /\ risk.caller = "direct"
    /\ risk' = [risk EXCEPT
          !.done = TRUE,
          !.scores = sub_scores(risk.total_notional, risk.avg_time_to_maturity,
                                risk.counterparty_concentration,
                                risk.currency_concentration, risk.swap_types),
          !.risk_score = _calculate_risk_score(risk.total_notional,
                                risk.avg_time_to_maturity,
                                risk.counterparty_concentration,
                                risk.currency_concentration, risk.swap_types)]
    /\ UNCHANGED <<tables, ret, last_notional, workers, contract, derived, batch, analyzer, limiter>>

\* str.upper() on character codes: a..z are mapped to A..Z.
upper(s) == [i \in DOMAIN s |-> IF s[i] \in 97..122 THEN s[i] - 32 ELSE s[i]]

\* dict.get(key, 0) + amount over the swaps: the exposure under each key.
\* Mutant: the amount of a key is overwritten, not added to.
exposure_by_overwritten(entity_swaps, keys) ==
    [k \in {keys[i] : i \in DOMAIN entity_swaps} |->
        entity_swaps[Max({i \in DOMAIN entity_swaps : keys[i] = k})].notional_amount]

\* keys[i] is the key of the i-th swap.
exposure_by(entity_swaps, keys) ==
    [k \in {keys[i] : i \in DOMAIN entity_swaps} |->
        sum([i \in DOMAIN entity_swaps |->
                IF keys[i] = k THEN entity_swaps[i].notional_amount ELSE 0])]

\* SwapsAnalyzer.calculate_exposure, the fields generate_risk_report reads.
\* list(exposure_by_type.keys()) keeps the order of first appearance.
RECURSIVE keys_in_order(_, _)
keys_in_order(list, seen) ==
    IF list = <<>> THEN <<>>
    ELSE IF Head(list) \in seen THEN keys_in_order(Tail(list), seen)
    ELSE <<Head(list)>> \o keys_in_order(Tail(list), seen \cup {Head(list)})

calculate_exposure(entity_swaps) ==
    [total_notional |-> sum([i \in DOMAIN entity_swaps |-> entity_swaps[i].notional_amount]),
     num_swaps |-> Len(entity_swaps),
     exposure_by_type |-> exposure_by(entity_swaps,
            [i \in DOMAIN entity_swaps |-> entity_swaps[i].swap_type]),
     exposure_by_counterparty |-> exposure_by(entity_swaps,
            [i \in DOMAIN entity_swaps |-> entity_swaps[i].counterparty]),
     exposure_by_currency |-> exposure_by(entity_swaps,
            [i \in DOMAIN entity_swaps |-> upper(entity_swaps[i].currency)]),
     swap_types |-> keys_in_order([i \in DOMAIN entity_swaps |-> entity_swaps[i].swap_type],
                                  {})]

\* Mutant: with no notional there is no concentration.
concentration_zero(exposure, total_notional) ==
    IF total_notional > 0
    THEN fraction(Max({exposure[k] : k \in DOMAIN exposure}), total_notional)
    ELSE <<0, 1>>

\* max(exposure.values()) / total_notional if total_notional > 0 else 1.0
concentration(exposure, total_notional) ==
    IF total_notional > 0
    THEN fraction(Max({exposure[k] : k \in DOMAIN exposure}), total_notional)
    ELSE <<1, 1>>

\* The average of (maturity_date - today).days / 365.25 over the swaps that have
\* not matured, 0 when there is none.
avg_time_to_maturity(entity_swaps) ==
    LET open == SelectSeq(entity_swaps, LAMBDA swap : swap.days_to_maturity > 0)
    IN  IF open = <<>> THEN <<0, 1>>
        ELSE fraction(sum([i \in DOMAIN open |-> open[i].days_to_maturity]) * 100,
                      36525 * Len(open))

\* Mutant: the thresholds are inclusive.
risk_level_inclusive(risk_score) ==
    IF frac_le(<<75, 1>>, risk_score) THEN "High"
    ELSE IF frac_le(<<50, 1>>, risk_score) THEN "Medium"
    ELSE "Low"

\* if risk_score > 75: "High" elif risk_score > 50: "Medium" else: "Low"
risk_level(risk_score) ==
    IF ~frac_le(risk_score, <<75, 1>>) THEN "High"
    ELSE IF ~frac_le(risk_score, <<50, 1>>) THEN "Medium"
    ELSE "Low"

\* The classifier of the per-contract analysis, which the report does not use.
_get_risk_level(score) ==
    IF frac_le(<<70, 1>>, score) THEN "Very High"
    ELSE IF frac_le(<<50, 1>>, score) THEN "High"
    ELSE IF frac_le(<<30, 1>>, score) THEN "Moderate"
    ELSE IF frac_le(<<15, 1>>, score) THEN "Low"
    ELSE "Minimal"

\* generate_risk_report for an entity whose matched contracts are risk.entity_swaps.
generate_risk_report ==
    LET exposure == calculate_exposure(risk.entity_swaps)
        years == avg_time_to_maturity(risk.entity_swaps)
        cp == concentration(exposure.exposure_by_counterparty, exposure.total_notional)
        cur == concentration(exposure.exposure_by_currency, exposure.total_notional)
        score == _calculate_risk_score(exposure.total_notional, years, cp, cur,
                                       exposure.swap_types)
    IN  /\ ~risk.done
        /\ risk.caller = "report"
        /\ IF risk.entity_swaps = <<>>
           THEN risk' = [risk EXCEPT !.done = TRUE, !.error = TRUE]
           ELSE risk' = [risk EXCEPT
                    !.done = TRUE,
                    !.total_notional = exposure.total_notional,
                    !.exposure = exposure,
                    !.avg_time_to_maturity = years,
                    !.counterparty_concentration = cp,
                    !.currency_concentration = cur,
                    !.swap_types = exposure.swap_types,
                    !.scores = sub_scores(exposure.total_notional, years, cp, cur,
                                          exposure.swap_types),
                    !.risk_score = score,
                    !.risk_level = risk_level(score)]
        /\ UNCHANGED <<tables, ret, last_notional, workers, contract, derived, batch, analyzer, limiter>>

---------------------------------------------------------------------------
(* Normalizing records: SwapsProcessor._process_dataframe and _process_json *)

\* A record of a file maps its keys to raw text; Missing is an absent key, an empty
\* cell (NaN) or a JSON null.
Missing == "<missing>"

\* What raising an exception leaves in place of a value.
Raised == "<raised>"

\* float(raw): the numbers the texts of the model stand for; any other text raises
\* ValueError.
float(raw) ==
    CASE raw = "1000000" -> <<1000000, 1>>
      [] raw = "500000"  -> <<500000, 1>>
      [] raw = "4.0"     -> <<4, 1>>
      [] raw = "0.5"     -> <<1, 2>>
      [] OTHER           -> NoRate

float_raises(raw) == float(raw) = NoRate

\* pd.to_datetime(raw, errors='coerce'): ISO dates and month/day/year dates are
\* read, None and any other text give NaT (Missing).
to_datetime(raw) ==
    CASE raw = "2025-01-01" -> "2025-01-01"
      [] raw = "2026-01-01" -> "2026-01-01"
      [] raw = "01/02/2026" -> "2026-01-02"
      [] OTHER              -> Missing

\* datetime.strptime(raw, "%Y-%m-%d").date(): only ISO dates are read, any other text
\* raises ValueError.
strptime(raw) ==
    CASE raw = "2025-01-01" -> "2025-01-01"
      [] raw = "2026-01-01" -> "2026-01-01"
      [] raw = "2026-01-02" -> "2026-01-02"
      [] OTHER              -> Raised

\* str.lower() on the enum texts of the model.
enum_lower(raw) ==
    CASE raw = "CREDIT_DEFAULT" -> "credit_default"
      [] raw = "Monthly"        -> "monthly"
      [] OTHER                  -> raw

\* SwapType(raw.lower()) / PaymentFrequency(raw.lower()): a text that is no value of
\* the enum raises ValueError.
enum_of(raw, members) == IF enum_lower(raw) \in members THEN enum_lower(raw) ELSE Raised

column_mapping ==
    [contract_id |-> <<"contract_id", "id", "swap_id", "contractid",
                       "dissemination identifier">>,
     counterparty |-> <<"counterparty", "cp", "party",
                        "prime brokerage transaction indicator">>,
     reference_entity |-> <<"reference_entity", "reference", "underlying", "entity",
                            "underlying asset name", "underlier id-leg 1">>,
     notional_amount |-> <<"notional_amount", "notional", "amount", "size",
                           "notional amount-leg 1">>,
     currency |-> <<"currency", "ccy", "curr", "notional currency-leg 1">>,
     effective_date |-> <<"effective_date", "start_date", "trade_date">>,
     maturity_date |-> <<"maturity_date", "end_date", "expiration date">>,
     swap_type |-> <<"swap_type", "type", "product", "asset class">>,
     payment_frequency |-> <<"payment_frequency", "freq", "payment",
                             "fixed rate payment frequency period-leg 1">>,
     fixed_rate |-> <<"fixed_rate", "rate", "coupon", "fixed rate-leg 1">>,
     floating_rate_index |-> <<"floating_rate_index", "index", "floating_index">>,
     floating_rate_spread |-> <<"floating_rate_spread", "spread", "margin",
                                "spread-leg 1">>]

field_mapping ==
    [contract_id |-> <<"contract_id", "id", "swap_id", "contractid">>,
     counterparty |-> <<"counterparty", "cp", "party">>,
     reference_entity |-> <<"reference_entity", "reference", "underlying", "entity">>,
     notional_amount |-> <<"notional_amount", "notional", "amount", "size">>,
     currency |-> <<"currency", "ccy", "curr">>,
     effective_date |-> <<"effective_date", "start_date", "trade_date">>,
     maturity_date |-> <<"maturity_date", "end_date", "expiry_date">>,
     swap_type |-> <<"swap_type", "type", "product">>,
     payment_frequency |-> <<"payment_frequency", "freq", "payment">>,
     fixed_rate |-> <<"fixed_rate", "rate", "coupon">>,
     floating_rate_index |-> <<"floating_rate_index", "index", "floating_index">>,
     floating_rate_spread |-> <<"floating_rate_spread", "spread", "margin">>,
     collateral_terms |-> <<"collateral_terms", "collateral", "margin_terms">>,
     additional_terms |-> <<"additional_terms", "terms", "misc">>]

\* The first name of the list that is among `present`, Missing when there is none
\* (the `for name in possible_names: if ...: break` loops).
RECURSIVE first_name(_, _)
first_name(names, present) ==
    IF names = <<>> THEN Missing
    ELSE IF Head(names) \in present THEN Head(names)
    ELSE first_name(Tail(names), present)

\* dict.get(key, default) on a dict: a function whose domain is the set of its keys.
get(data, key, default) == IF key \in DOMAIN data THEN data[key] ELSE default

\* SwapContract.__post_init__: text dates are parsed with strptime and text enums
\* with the enum's constructor; a ValueError leaves the constructor, so no contract
\* exists (<<>>). A date object is written as its ISO text and an enum member as its
\* value, for which both conversions change nothing.
__post_init__(fields) ==
    LET effective_date == strptime(fields.effective_date)
        maturity_date == strptime(fields.maturity_date)
        swap_type == enum_of(fields.swap_type, SwapType)
        payment_frequency == enum_of(fields.payment_frequency, PaymentFrequency)
    IN  IF Raised \in {effective_date, maturity_date, swap_type, payment_frequency}
        THEN <<>>
        ELSE <<[fields EXCEPT !.effective_date = effective_date,
                              !.maturity_date = maturity_date,
                              !.swap_type = swap_type,
                              !.payment_frequency = payment_frequency]>>

\* A table is the list of its rows, every row a function from the lower-cased column
\* names to the cell's text (Missing for an empty cell).
df_columns(df) == IF df = <<>> THEN {} ELSE DOMAIN df[1]

\* actual_columns: for every standard name the first synonym that is a column.
actual_columns(columns) ==
    [standard_name \in {n \in DOMAIN column_mapping :
                           first_name(column_mapping[n], columns) # Missing}
        |-> first_name(column_mapping[standard_name], columns)]

\* The row's swap_data: the non-empty cells of the mapped columns.
row_swap_data(row, actual) ==
    [std_name \in {n \in DOMAIN actual : row[actual[n]] # Missing}
        |-> row[actual[std_name]]]

\* One pass of the loop over df.iterrows(): the contracts the row appends, none when
\* the row is skipped or an exception is caught.
row_swaps(row, actual) ==
    LET swap_data == row_swap_data(row, actual)
        effective_date_dt == to_datetime(get(swap_data, "effective_date", Missing))
        maturity_date_dt == to_datetime(get(swap_data, "maturity_date", Missing))
        fixed_rate == IF "fixed_rate" \in DOMAIN swap_data
                      THEN float(swap_data["fixed_rate"]) ELSE NoRate
        spread == IF "floating_rate_spread" \in DOMAIN swap_data
                  THEN float(swap_data["floating_rate_spread"]) ELSE NoRate
    IN  IF effective_date_dt = Missing \/ maturity_date_dt = Missing
        THEN <<>>
        ELSE IF "notional_amount" \in DOMAIN swap_data
                /\ float_raises(swap_data["notional_amount"])
        THEN <<>>
        ELSE __post_init__(
               [contract_id |-> get(swap_data, "contract_id", ""),
                counterparty |-> get(swap_data, "counterparty", "UNKNOWN"),
                reference_entity |-> get(swap_data, "reference_entity", "UNKNOWN"),
                notional_amount |-> IF "notional_amount" \in DOMAIN swap_data
                                    THEN float(swap_data["notional_amount"])
                                    ELSE <<0, 1>>,
                currency |-> get(swap_data, "currency", "USD"),
                effective_date |-> effective_date_dt,
                maturity_date |-> maturity_date_dt,
                swap_type |-> get(swap_data, "swap_type", "other"),
                payment_frequency |-> get(swap_data, "payment_frequency", "quarterly"),
                fixed_rate |-> fixed_rate,
                floating_rate_index |-> get(swap_data, "floating_rate_index", Missing),
                floating_rate_spread |-> spread])

RECURSIVE rows_swaps(_, _)
rows_swaps(rows, actual) ==
    IF rows = <<>> THEN <<>>
    ELSE row_swaps(Head(rows), actual) \o rows_swaps(Tail(rows), actual)

_process_dataframe(df) == rows_swaps(df, actual_columns(df_columns(df)))

required_fields ==
    {"contract_id", "counterparty", "reference_entity", "notional_amount",
     "effective_date", "maturity_date"}

\* An item is a function from its lower-cased keys to the value's text (Missing for
\* null). swap_data takes, for every field, the first synonym with a value.
item_swap_data(item) ==
    LET present == {k \in DOMAIN item : item[k] # Missing}
    IN  [field \in {f \in DOMAIN field_mapping :
                       first_name(field_mapping[f], present) # Missing}
            |-> item[first_name(field_mapping[field], present)]]

\* _process_swap_item: None (<<>>) for a missing required field and for every
\* exception, float's ValueError included.
_process_swap_item(item) ==
    LET swap_data == item_swap_data(item)
    IN  IF ~(required_fields \subseteq DOMAIN swap_data)
        THEN <<>>
        ELSE IF \/ float_raises(swap_data["notional_amount"])
                \/ /\ "fixed_rate" \in DOMAIN swap_data
                   /\ float_raises(swap_data["fixed_rate"])
                \/ /\ "floating_rate_spread" \in DOMAIN swap_data
                   /\ float_raises(swap_data["floating_rate_spread"])
        THEN <<>>
        ELSE __post_init__(
               [contract_id |-> swap_data["contract_id"],
                counterparty |-> swap_data["counterparty"],
                reference_entity |-> swap_data["reference_entity"],
                notional_amount |-> float(swap_data["notional_amount"]),
                currency |-> get(swap_data, "currency", "USD"),
                effective_date |-> swap_data["effective_date"],
                maturity_date |-> swap_data["maturity_date"],
                swap_type |-> get(swap_data, "swap_type", "other"),
                payment_frequency |-> get(swap_data, "payment_frequency", "quarterly"),
                fixed_rate |-> IF "fixed_rate" \in DOMAIN swap_data
                               THEN float(swap_data["fixed_rate"]) ELSE NoRate,
                floating_rate_index |-> get(swap_data, "floating_rate_index", Missing),
                floating_rate_spread |->
                    IF "floating_rate_spread" \in DOMAIN swap_data
                    THEN float(swap_data["floating_rate_spread"]) ELSE NoRate])

\* _process_json on a list of items; a single object is the list of that one item.
RECURSIVE _process_json(_)
_process_json(data) ==
    IF data = <<>> THEN <<>>
    ELSE _process_swap_item(Head(data)) \o _process_json(Tail(data))

\* Normalizing one record in both formats: process_filing with save_to_db=False on a
\* one-row table, and on a JSON file holding the equivalent object.
NotProcessed == [done |-> FALSE, swaps |-> <<>>]

process_table ==
    /\ batch.kind = "record"
    /\ ~batch.table.done
    /\ batch' = [batch EXCEPT !.table =
                    [done |-> TRUE, swaps |-> _process_dataframe(<<batch.record>>)]]
    /\ UNCHANGED <<tables, ret, last_notional, workers, contract, derived, risk,
                   analyzer, limiter>>

process_json ==
    /\ batch.kind = "record"
    /\ ~batch.json.done
    /\ batch' = [batch EXCEPT !.json =
                    [done |-> TRUE, swaps |-> _process_json(<<batch.record>>)]]
    /\ UNCHANGED <<tables, ret, last_notional, workers, contract, derived, risk,
                   analyzer, limiter>>

---------------------------------------------------------------------------
(* Ingesting a file: SwapsProcessor.process_filing with save_to_db=True *)

\* The code points of a text, as the tables of names hold them.
chars(text) ==
    CASE text = "GS"      -> GS_upper
      [] text = "gs"      -> GS_lower
      [] text = "[E-acute]C" -> EC_upper   \* the text of EC_upper, in ASCII
      [] text = "GME"     -> GME_upper
      [] text = "gme"     -> GME_lower
      [] text = "USD"     -> USD_upper
      [] text = "UNKNOWN" -> <<85, 78, 75, 78, 79, 87, 78>>
      [] OTHER            -> Falsy

\* SwapContract.to_dict(): asdict with the enums as their values and the dates as
\* ISO texts, which is how the model writes them already.
to_dict(swap) ==
    [contract_id |-> swap.contract_id,
     counterparty |-> swap.counterparty,
     reference_entity |-> swap.reference_entity,
     notional_amount |-> swap.notional_amount,
     currency |-> swap.currency,
     effective_date |-> swap.effective_date,
     maturity_date |-> swap.maturity_date,
     swap_type |-> swap.swap_type,
     payment_frequency |-> swap.payment_frequency,
     fixed_rate |-> swap.fixed_rate,
     floating_rate_index |-> swap.floating_rate_index,
     floating_rate_spread |-> swap.floating_rate_spread]

\* The database between two calls of the handler; raised tells whether the last
\* call left by an exception, saved whether save_swap returned a row, and
\* saved_count is the counter of the loop that calls it.
Database(cps, secs, sws, last, raised) ==
    [counterparties |-> cps, securities |-> secs, swaps |-> sws,
     last_notional |-> last, raised |-> raised, saved |-> FALSE, saved_count |-> 0]

\* DatabaseHandler.get_or_create_counterparty on the database db.
db_get_or_create_counterparty(db, name) ==
    LET found == {c \in db.counterparties : sql_lower(c.name) = lower(name)}
        new == [id |-> NextId(db.counterparties), name |-> name]
    IN  IF found # {} THEN [db EXCEPT !.raised = FALSE]
        ELSE IF \E c \in db.counterparties : c.name = name
        THEN [db EXCEPT !.raised = TRUE]
        ELSE [db EXCEPT !.counterparties = @ \cup {new}, !.raised = FALSE]

\* DatabaseHandler.get_or_create_security on the database db.
db_get_or_create_security(db, identifier) ==
    LET found == {x \in db.securities : sql_lower(x.identifier) = lower(identifier)}
        new == [id |-> NextId(db.securities), identifier |-> identifier]
    IN  IF found # {} THEN [db EXCEPT !.raised = FALSE]
        ELSE IF \E x \in db.securities : x.identifier = identifier
        THEN [db EXCEPT !.raised = TRUE]
        ELSE [db EXCEPT !.securities = @ \cup {new}, !.raised = FALSE]

\* Mutant: the counterparty that save_swap flushed survives the rollback.
db_save_swap_keeps_flushed(db, swap_data) ==
    LET counterparty_name == chars(swap_data.counterparty)
        found == {c \in db.counterparties : c.name = counterparty_name}
        created == [id |-> NextId(db.counterparties), name |-> counterparty_name]
        counterparty == IF found = {} THEN created ELSE first(found)
        existing_swap == {x \in db.swaps : x.contract_id = swap_data.contract_id}
        swap == IF existing_swap # {}
                THEN [first(existing_swap) EXCEPT
                         !.counterparty_id = counterparty.id,
                         !.notional_amount = swap_data.notional_amount]
                ELSE [id |-> NextId(db.swaps),
                      contract_id |-> swap_data.contract_id,
                      counterparty_id |-> counterparty.id,
                      notional_amount |-> swap_data.notional_amount]
    IN  IF counterparty_name = Falsy
        THEN [db EXCEPT !.raised = TRUE, !.saved = FALSE]
        ELSE IF swap_data.notional_amount = NoRate
        THEN [db EXCEPT
                 !.counterparties = IF found = {} THEN @ \cup {created} ELSE @,
                 !.raised = FALSE, !.saved = FALSE]
        ELSE [db EXCEPT
                 !.counterparties = IF found = {} THEN @ \cup {created} ELSE @,
                 !.swaps = (@ \ existing_swap) \cup {swap},
                 !.last_notional =
                     [c \in DOMAIN @ |-> IF c = swap_data.contract_id
                                         THEN swap_data.notional_amount ELSE @[c]],
                 !.raised = FALSE, !.saved = TRUE]

\* DatabaseHandler.save_swap on the database db, for the dict of a contract. An
\* empty counterparty raises ValueError; a notional of None (NoRate) breaks NOT NULL:
\* the IntegrityError is rolled back, with the counterparty flushed before it, and
\* None is returned.
db_save_swap(db, swap_data) ==
    LET counterparty_name == chars(swap_data.counterparty)
        found == {c \in db.counterparties : c.name = counterparty_name}
        created == [id |-> NextId(db.counterparties), name |-> counterparty_name]
        counterparty == IF found = {} THEN created ELSE first(found)
        existing_swap == {x \in db.swaps : x.contract_id = swap_data.contract_id}
        swap == IF existing_swap # {}
                THEN [first(existing_swap) EXCEPT
                         !.counterparty_id = counterparty.id,
                         !.notional_amount = swap_data.notional_amount]
                ELSE [id |-> NextId(db.swaps),
                      contract_id |-> swap_data.contract_id,
                      counterparty_id |-> counterparty.id,
                      notional_amount |-> swap_data.notional_amount]
    IN  IF counterparty_name = Falsy
        THEN [db EXCEPT !.raised = TRUE, !.saved = FALSE]
        ELSE IF swap_data.notional_amount = NoRate
        THEN [db EXCEPT !.raised = FALSE, !.saved = FALSE]
        ELSE [db EXCEPT
                 !.counterparties = IF found = {} THEN @ \cup {created} ELSE @,
                 !.swaps = (@ \ existing_swap) \cup {swap},
                 !.last_notional =
                     [c \in DOMAIN @ |-> IF c = swap_data.contract_id
                                         THEN swap_data.notional_amount ELSE @[c]],
                 !.raised = FALSE, !.saved = TRUE]

\* One pass of the loop of _save_swaps_to_db: the three calls in turn; an exception
\* of one of them is caught and logged, and the calls after it are not made. The
\* contract is counted when save_swap returned a row.
save_one(db, swap) ==
    LET with_counterparty == db_get_or_create_counterparty(db, chars(swap.counterparty))
        with_security ==
            db_get_or_create_security(with_counterparty, chars(swap.reference_entity))
        with_swap == db_save_swap(with_security, to_dict(swap))
    IN  IF with_counterparty.raised THEN [with_counterparty EXCEPT !.saved = FALSE]
        ELSE IF with_security.raised THEN [with_security EXCEPT !.saved = FALSE]
        ELSE IF with_swap.saved
        THEN [with_swap EXCEPT !.saved_count = @ + 1]
        ELSE with_swap

RECURSIVE _save_swaps_to_db(_, _)
_save_swaps_to_db(db, swap_list) ==
    IF swap_list = <<>> THEN db
    ELSE _save_swaps_to_db(save_one(db, Head(swap_list)), Tail(swap_list))

\* process_filing on a .csv file whose table is batch.rows: the rows are
\* normalized, and the contracts, when there are any, are saved.
process_filing ==
    /\ batch.kind = "file"
    /\ ~batch.done
    /\ LET loaded_swaps == _process_dataframe(batch.rows)
           before == Database(counterparties, securities, swaps, last_notional, FALSE)
           after == IF loaded_swaps # <<>>
                    THEN _save_swaps_to_db(before, loaded_swaps) ELSE before
       IN  /\ batch' = [batch EXCEPT !.done = TRUE, !.loaded_swaps = loaded_swaps]
           /\ counterparties' = after.counterparties
           /\ securities' = after.securities
           /\ swaps' = after.swaps
           /\ last_notional' = after.last_notional
    /\ ret' = Result("process_filing", Falsy, "ok", NULL)
    /\ UNCHANGED <<obligations, triggers, instruments, analyses, workers, contract,
                   derived, risk, analyzer, limiter>>

\* SwapsProcessor._save_swaps_to_db(swaps) on the list of contracts batch.swaps; ret
\* holds the count it returns, and batch.known the counterparties there were before.
save_batch ==
    /\ batch.kind = "batch"
    /\ ~batch.done
    /\ LET before == Database(counterparties, securities, swaps, last_notional, FALSE)
           after == _save_swaps_to_db(before, batch.swaps)
       IN  /\ batch' = [batch EXCEPT !.done = TRUE, !.known = counterparties]
           /\ counterparties' = after.counterparties
           /\ securities' = after.securities
           /\ swaps' = after.swaps
           /\ last_notional' = after.last_notional
           /\ ret' = Result("_save_swaps_to_db", Falsy, "ok", after.saved_count)
    /\ UNCHANGED <<obligations, triggers, instruments, analyses, workers, contract,
                   derived, risk, analyzer, limiter>>

---------------------------------------------------------------------------
(* The read view vw_swap_obligations *)

\* Mutant: an inner join.
left_join_inner(matches, null_row) == matches

\* A LEFT JOIN keeps the left row, with a NULL right row, when nothing matches.
left_join(matches, null_row) == IF matches = {} THEN {null_row} ELSE matches

null_counterparty == [id |-> NULL, name |-> Falsy]
null_obligation == [id |-> NULL, swap_id |-> NULL, obligation_type |-> NoType]
null_instrument == [id |-> NULL, swap_id |-> NULL, security_id |-> NULL]
null_security == [id |-> NULL, identifier |-> Falsy]
null_trigger == [id |-> NULL, obligation_id |-> NULL, trigger_type |-> NoType,
                 is_active |-> FALSE]

\* One row of the view. instrument_rowid and trigger_rowid are not columns of the
\* view: they are the joined rows, and keep two rows with equal columns apart (the
\* method returns a list).
view_row(s, c, o, ui, rs, ot) ==
    [swap_id |-> s.id, contract_id |-> s.contract_id, counterparty |-> c.name,
     notional_amount |-> s.notional_amount,
     obligation_id |-> o.id, obligation_type |-> o.obligation_type,
     instrument_rowid |-> ui.id, instrument_identifier |-> rs.identifier,
     trigger_rowid |-> ot.id, trigger_type |-> ot.trigger_type]

\* Mutant: the view has no WHERE clause.
view_filter_missing(ot) == TRUE

\* WHERE (ot.is_active = 1 OR ot.id IS NULL)
view_filter(ot) == ot.is_active \/ ot.id = NULL

vw_swap_obligations ==
    UNION { UNION { UNION { UNION { UNION {
        { view_row(s, c, o, ui, rs, ot) :
            ot \in { t \in left_join(IF o.id = NULL THEN {} ELSE triggers_of(o.id),
                                     null_trigger) : view_filter(t) } } :
            rs \in left_join({x \in securities : x.id = ui.security_id}, null_security) } :
            ui \in left_join(instruments_of(s.id), null_instrument) } :
            o \in left_join(obligations_of(s.id), null_obligation) } :
            c \in left_join({x \in counterparties : x.id = s.counterparty_id},
                            null_counterparty) } :
            s \in swaps }

\* swap_id = NULL stands for the default argument None: no filter.
get_swap_obligations_view(swap_id) ==
    IF swap_id = NULL THEN vw_swap_obligations
    ELSE {r \in vw_swap_obligations : r.swap_id = swap_id}

---------------------------------------------------------------------------
(* The update path of save_swap on a row with all its columns *)

\* `for key, value in swap_data.items(): if hasattr(existing_swap, key) and key !=
\* 'id': setattr(existing_swap, key, value)`, then updated_at = utcnow(). Every key
\* of the model's dicts is a column; a column whose key is not in the dict is not
\* assigned.
setattr_all(existing_swap, swap_data, now) ==
    [column_name \in DOMAIN existing_swap |->
        IF column_name = "updated_at" THEN now
        ELSE IF column_name \in DOMAIN swap_data /\ column_name # "id"
        THEN swap_data[column_name]
        ELSE existing_swap[column_name]]

\* save_swap(swap_data) when batch.row is the row of swap_data['contract_id']: the
\* counterparty is looked up by its exact name and created when there is none, the
\* key 'counterparty' is popped and 'counterparty_id' is set, and the row is
\* assigned to.
save_existing_swap ==
    /\ batch.kind = "upsert"
    /\ ~batch.done
    /\ LET counterparty_name == batch.swap_data["counterparty"]
           found == counterparty_by_name(counterparty_name)
           created == [id |-> NextId(counterparties), name |-> counterparty_name]
           counterparty == IF found = {} THEN created ELSE first(found)
           popped == [k \in (DOMAIN batch.swap_data \ {"counterparty"})
                         \cup {"counterparty_id"} |->
                        IF k = "counterparty_id" THEN counterparty.id
                        ELSE batch.swap_data[k]]
       IN  /\ counterparties' = IF found = {} THEN counterparties \cup {created}
                                ELSE counterparties
           /\ batch' = [batch EXCEPT !.done = TRUE,
                           !.row = setattr_all(batch.row, popped, batch.now),
                           !.previous = batch.row,
                           !.counterparty_id = counterparty.id]
           /\ ret' = Result("save_swap", batch.swap_data["contract_id"], "ok", batch.row.id)
    /\ UNCHANGED <<securities, swaps, obligations, triggers, instruments, analyses,
                   last_notional, workers, contract, derived, risk, analyzer, limiter>>

---------------------------------------------------------------------------
(* The analyzer: SwapsAnalyzer's ingestion, its cache and its queries *)

\* Whether self.db has the attribute swaps_db that _save_swaps_to_db reads.
\* DatabaseHandler.__init__ sets db_url, engine and Session only, and no class of
\* the package defines the attribute: the read raises AttributeError.
has_swaps_db == FALSE

\* The date object of an ISO text.
date(text) ==
    CASE text = "2025-01-01" -> Date(2025, 1, 1)
      [] text = "2026-01-01" -> Date(2026, 1, 1)
      [] text = "2026-01-02" -> Date(2026, 1, 2)
      [] OTHER               -> NoDate


\* A loaded contract as the deriving methods read it: the dates as date objects, the
\* float notional as the whole number it equals, the names as their characters.
\* _process_dataframe passes no additional_terms, so the default {} is in force.
derivable(swap) ==
    [swap_type |-> swap.swap_type,
     payment_frequency |-> swap.payment_frequency,
     fixed_rate |-> swap.fixed_rate,
     floating_rate_index |-> IF swap.floating_rate_index = Missing THEN Falsy
                             ELSE <<swap.floating_rate_index>>,
     notional_amount |-> swap.notional_amount[1] \div swap.notional_amount[2],
     effective_date |-> date(swap.effective_date),
     reference_entity |-> chars(swap.reference_entity),
     additional_terms |-> [obligations |-> <<>>, triggers |-> <<>>]]

\* _extract_underlying_instruments: the reference entity, when there is one
\* (additional_terms has no 'underlying_instruments' for a loaded contract).
_extract_underlying_instruments(swap) ==
    IF chars(swap.reference_entity) # Falsy
    THEN <<[instrument_type |-> "equity", identifier |-> chars(swap.reference_entity)]>>
    ELSE <<>>

\* The database between two calls: the tables and whether the last call raised.
Store ==
    [counterparties |-> counterparties, securities |-> securities, swaps |-> swaps,
     obligations |-> obligations, triggers |-> triggers, instruments |-> instruments,
     last_notional |-> last_notional, raised |-> FALSE, saved |-> FALSE,
     saved_count |-> 0]

\* DatabaseHandler.add_underlying_instrument on the database db: a row is inserted
\* whether or not the swap has one for the security already.
db_add_underlying_instrument(db, swap_id, instrument_data) ==
    LET found == {x \in db.securities : x.identifier = instrument_data.identifier}
        created == [id |-> NextId(db.securities),
                    identifier |-> instrument_data.identifier]
        security == IF found = {} THEN created ELSE first(found)
    IN  IF instrument_data.identifier = Falsy THEN [db EXCEPT !.raised = TRUE]
        ELSE [db EXCEPT
                 !.securities = IF found = {} THEN @ \cup {created} ELSE @,
                 !.instruments = @ \cup {[id |-> NextId(db.instruments),
                                          swap_id |-> swap_id,
                                          security_id |-> security.id]}]

\* DatabaseHandler.add_obligation_trigger on the database db.
db_add_obligation_trigger(db, obligation_id, trigger_data) ==
    [db EXCEPT !.triggers = @ \cup {[id |-> NextId(db.triggers),
                                     obligation_id |-> obligation_id,
                                     trigger_type |-> trigger_data.trigger_type,
                                     is_active |-> trigger_data.is_active]}]

RECURSIVE add_triggers(_, _, _)
add_triggers(db, obligation_id, trigger_list) ==
    IF trigger_list = <<>> THEN db
    ELSE add_triggers(db_add_obligation_trigger(db, obligation_id, Head(trigger_list)),
                      obligation_id, Tail(trigger_list))

\* DatabaseHandler.add_obligation on the database db, followed by the triggers of
\* the saved obligation: the loop body of _process_swap_details.
db_add_obligation(db, swap_id, obligation_data, trigger_list) ==
    add_triggers(
        [db EXCEPT !.obligations = @ \cup {[id |-> NextId(db.obligations),
                                            swap_id |-> swap_id,
                                            obligation_type |-> obligation_data.obligation_type,
                                            amount |-> obligation_data.amount]}],
        NextId(db.obligations), trigger_list)

RECURSIVE add_instruments(_, _, _)
add_instruments(db, swap_id, instrument_list) ==
    IF instrument_list = <<>> \/ db.raised THEN db
    ELSE add_instruments(db_add_underlying_instrument(db, swap_id, Head(instrument_list)),
                         swap_id, Tail(instrument_list))

RECURSIVE add_obligations(_, _, _, _)
add_obligations(db, swap_id, swap, obligation_list) ==
    IF obligation_list = <<>> THEN db
    ELSE add_obligations(
            db_add_obligation(db, swap_id, Head(obligation_list),
                _extract_obligation_triggers(derivable(swap), Head(obligation_list))),
            swap_id, swap, Tail(obligation_list))

\* SwapsAnalyzer._process_swap_details on the database db: the instruments, then the
\* obligations, each with its triggers; an exception ends the method, and is logged.
process_swap_details(db, swap_id, swap) ==
    LET with_instruments ==
            add_instruments(db, swap_id, _extract_underlying_instruments(swap))
    IN  IF with_instruments.raised THEN [with_instruments EXCEPT !.raised = FALSE]
        ELSE add_obligations(with_instruments, swap_id, swap,
                             _extract_obligations(derivable(swap)))

\* One pass of the loop of SwapsAnalyzer._save_swaps_to_db on state = [db,
\* saved_count]: self.db.swaps_db is read first, and its AttributeError is caught by
\* the loop's `except Exception`; with the attribute, the entities are resolved, the
\* contract is saved and, when save_swap returned a row, counted and detailed.
analyzer_save_one(state, swap) ==
    LET after == save_one(state.db, swap)
        saved_swap == first({x \in after.swaps : x.contract_id = swap.contract_id})
    IN  IF ~has_swaps_db THEN state
        ELSE IF after.raised \/ ~after.saved
        THEN [state EXCEPT !.db = [after EXCEPT !.raised = FALSE]]
        ELSE [db |-> process_swap_details(after, saved_swap.id, swap),
              saved_count |-> state.saved_count + 1]

RECURSIVE analyzer_save_swaps_to_db(_, _)
analyzer_save_swaps_to_db(state, swap_list) ==
    IF swap_list = <<>> THEN state
    ELSE analyzer_save_swaps_to_db(analyzer_save_one(state, Head(swap_list)),
                                   Tail(swap_list))

\* `needle in text` on texts that are lists of characters.
contains(text, needle) ==
    \E i \in 0..(Len(text) - Len(needle)) : SubSeq(text, i + 1, i + Len(needle)) = needle

\* The keyword arguments SwapContract(**data) accepts.
SwapContractFields ==
    {"contract_id", "counterparty", "reference_entity", "notional_amount",
     "effective_date", "maturity_date", "currency", "swap_type", "payment_frequency",
     "fixed_rate", "floating_rate_index", "floating_rate_spread", "collateral_terms",
     "additional_terms"}

\* [SwapContract.from_dict(s) for s in rows]: one unexpected key raises TypeError,
\* and no list is built.
from_dict_raises(rows) == \E r \in rows : ~(DOMAIN r \subseteq SwapContractFields)

\* DatabaseHandler.get_obligations_by_instrument: the obligations of the swaps that
\* have an instrument on the security with exactly this identifier.
get_obligations_by_instrument(instrument_identifier) ==
    { [id |-> o.id, swap_id |-> o.swap_id, obligation_type |-> o.obligation_type,
       swap_contract_id |-> s.contract_id, instrument_identifier |-> instrument_identifier] :
        <<s, o>> \in {<<s, o>> \in swaps \X obligations :
            /\ o.swap_id = s.id
            /\ \E ui \in instruments_of(s.id) : \E rs \in securities :
                  rs.id = ui.security_id /\ rs.identifier = instrument_identifier} }

\* {swap.contract_id: swap for swap in matches}.values(): one contract for every
\* contract_id, the last one of the list, in the order the ids first appear.
RECURSIVE dedupe(_, _)
dedupe(matches, seen) ==
    IF matches = <<>> THEN <<>>
    ELSE IF Head(matches).contract_id \in seen THEN dedupe(Tail(matches), seen)
    ELSE LET same == SelectSeq(matches,
                         LAMBDA swap : swap.contract_id = Head(matches).contract_id)
         IN  <<same[Len(same)]>>
             \o dedupe(Tail(matches), seen \cup {Head(matches).contract_id})

\* SwapsAnalyzer.find_swaps_by_reference_entity: the loaded contracts whose
\* reference entity contains the name, whatever the case; the rows found in the
\* database are turned into contracts inside a try, and on an exception none is.
find_swaps_by_reference_entity(loaded_swaps, entity_name) ==
    LET in_memory_matches ==
            SelectSeq(loaded_swaps, LAMBDA swap :
                contains(lower(chars(swap.reference_entity)), lower(entity_name)))
        db_results == get_obligations_by_instrument(entity_name)
        db_matches == IF from_dict_raises(db_results) THEN <<>> ELSE <<>>
    IN  dedupe(in_memory_matches \o db_matches, {})

\* A loaded contract as calculate_exposure reads it.
entity_swap(swap) ==
    [contract_id |-> swap.contract_id,
     notional_amount |-> swap.notional_amount[1] \div swap.notional_amount[2],
     counterparty |-> chars(swap.counterparty),
     currency |-> chars(swap.currency),
     swap_type |-> swap.swap_type]

\* The last call of the analyzer: its argument, what kind of value came back, and
\* the two totals of that value.
Answer(call, arg, status, total_notional, num_swaps) ==
    [call |-> call, arg |-> arg, status |-> status, total_notional |-> total_notional,
     num_swaps |-> num_swaps]

\* Mutant: the exposure is computed whether or not a contract was found.
exposure_answer_unchecked(call, loaded_swaps, entity_name) ==
    LET found == find_swaps_by_reference_entity(loaded_swaps, entity_name)
        entity_swaps == [i \in DOMAIN found |-> entity_swap(found[i])]
        exposure == calculate_exposure(entity_swaps)
    IN  Answer(call, entity_name,
               IF call = "calculate_exposure" THEN "exposure" ELSE "report",
               exposure.total_notional, exposure.num_swaps)

\* calculate_exposure(entity_name) and generate_risk_report(entity_name): {} and the
\* error dict when nothing matches, the exposure and the report otherwise (the
\* report's further entries are those of the scoring section).
exposure_answer(call, loaded_swaps, entity_name) ==
    LET found == find_swaps_by_reference_entity(loaded_swaps, entity_name)
        entity_swaps == [i \in DOMAIN found |-> entity_swap(found[i])]
        exposure == calculate_exposure(entity_swaps)
    IN  IF found = <<>>
        THEN Answer(call, entity_name,
                    IF call = "calculate_exposure" THEN "{}"
                    ELSE "error: No swaps found for reference entity", 0, 0)
        ELSE Answer(call, entity_name,
                    IF call = "calculate_exposure" THEN "exposure" ELSE "report",
                    exposure.total_notional, exposure.num_swaps)

\* SwapsAnalyzer._get_swaps_from_db on the analyzer a. A cache that is not None is
\* returned as it is. Otherwise the view is queried and its rows are turned into
\* contracts; when that raises, [] is returned and the cache stays None. hit and
\* stale record how the read was served: from the cache, and from a cache taken
\* before the swaps table became what it is now.
_get_swaps_from_db(a) ==
    LET swap_dicts == get_swap_obligations_view(NULL)
    IN  IF a.cached
        THEN [a EXCEPT !.hit = TRUE, !.stale = (swaps # a.snapshot)]
        ELSE IF from_dict_raises(swap_dicts)
        THEN [a EXCEPT !.queries = @ + 1, !.hit = FALSE, !.stale = FALSE]
        ELSE [a EXCEPT !.queries = @ + 1, !.hit = FALSE, !.stale = FALSE,
                       !.cached = TRUE, !._db_swaps_cache = swap_dicts,
                       !.snapshot = swaps]

\* SwapsAnalyzer.clear_cache on the analyzer a: the loaded contracts go as well.
cleared(a) ==
    [a EXCEPT !._loaded_swaps = <<>>, !.cached = FALSE, !._db_swaps_cache = {}]

\* A read of the property analyzer.swaps.
swaps_read ==
    /\ analyzer.kind = "analyzer"
    /\ analyzer.queries < MaxQueries
    /\ analyzer' = [_get_swaps_from_db(analyzer) EXCEPT
                       !.answer = Answer("swaps", Falsy, "list", 0,
                                        Len(analyzer._loaded_swaps))]
    /\ UNCHANGED <<tables, ret, last_notional, workers, contract, derived, risk, batch,
                   limiter>>

clear_cache ==
    /\ analyzer.kind = "analyzer"
    /\ analyzer' = [cleared(analyzer) EXCEPT
                       !.answer = Answer("clear_cache", Falsy, "None", 0, 0)]
    /\ UNCHANGED <<tables, ret, last_notional, workers, contract, derived, risk, batch,
                   limiter>>

\* load_swaps_from_file(file_path, save_to_db) on a .csv file whose table is rows.
load_swaps_from_file(rows, save_to_db) ==
    /\ analyzer.kind = "analyzer"
    /\ Len(analyzer._loaded_swaps) < MaxLoaded
    /\ LET loaded_swaps == _process_dataframe(rows)
           before == [db |-> Store, saved_count |-> 0]
           after == IF save_to_db /\ loaded_swaps # <<>>
                    THEN analyzer_save_swaps_to_db(before, loaded_swaps) ELSE before
           kept == IF after.saved_count > 0 THEN cleared(analyzer) ELSE analyzer
       IN  /\ analyzer' = [kept EXCEPT
                  !._loaded_swaps = @ \o loaded_swaps,
                  !.answer = Answer("load_swaps_from_file", Falsy,
                                    IF save_to_db THEN "save_to_db" ELSE "in memory",
                                    after.saved_count, Len(loaded_swaps))]
           /\ counterparties' = after.db.counterparties
           /\ securities' = after.db.securities
           /\ swaps' = after.db.swaps
           /\ obligations' = after.db.obligations
           /\ triggers' = after.db.triggers
           /\ instruments' = after.db.instruments
           /\ last_notional' = after.db.last_notional
    /\ UNCHANGED <<analyses, ret, workers, contract, derived, risk, batch, limiter>>

\* _process_swap_details(swap_id, swap) for the row that holds the contract.
_process_swap_details(swap) ==
    /\ analyzer.kind = "analyzer"
    /\ swap_by_contract_id(swap.contract_id) # {}
    /\ Cardinality(obligations) < MaxObligations
    /\ LET after == process_swap_details(Store,
                        first(swap_by_contract_id(swap.contract_id)).id, swap)
       IN  /\ securities' = after.securities
           /\ obligations' = after.obligations
           /\ triggers' = after.triggers
           /\ instruments' = after.instruments
    /\ UNCHANGED <<counterparties, swaps, analyses, last_notional, ret, workers, contract,
                   derived, risk, batch, analyzer, limiter>>

\* calculate_exposure(entity_name)
analyzer_calculate_exposure(entity_name) ==
    /\ analyzer.kind = "analyzer"
    /\ analyzer' = [analyzer EXCEPT !.answer =
          exposure_answer("calculate_exposure", analyzer._loaded_swaps, entity_name)]
    /\ UNCHANGED <<tables, ret, last_notional, workers, contract, derived, risk, batch,
                   limiter>>

\* generate_risk_report(entity_name)
analyzer_generate_risk_report(entity_name) ==
    /\ analyzer.kind = "analyzer"
    /\ analyzer' = [analyzer EXCEPT !.answer =
          exposure_answer("generate_risk_report", analyzer._loaded_swaps, entity_name)]
    /\ UNCHANGED <<tables, ret, last_notional, workers, contract, derived, risk, batch,
                   limiter>>

\* analyze_counterparty_risk(counterparty): self.swaps is read, and the contracts of
\* the counterparty, whatever the case, are analyzed; the error dict when none is.
analyze_counterparty_risk(counterparty) ==
    /\ analyzer.kind = "analyzer"
    /\ analyzer.queries < MaxQueries
    /\ LET read == _get_swaps_from_db(analyzer)
           found == SelectSeq(analyzer._loaded_swaps, LAMBDA swap :
                        lower(chars(swap.counterparty)) = lower(counterparty))
       IN  analyzer' = [read EXCEPT !.answer =
              IF found = <<>>
              THEN Answer("analyze_counterparty_risk", counterparty,
                          "error: No swaps found for counterparty", 0, 0)
              ELSE Answer("analyze_counterparty_risk", counterparty, "analysis",
                          sum([i \in DOMAIN found |-> entity_swap(found[i]).notional_amount]),
                          Len(found))]
    /\ UNCHANGED <<tables, ret, last_notional, workers, contract, derived, risk, batch,
                   limiter>>

---------------------------------------------------------------------------
(* Inputs *)

SwapInputs ==
    [contract_id : ContractIds, counterparty : CounterpartyNames \cup {Falsy},
     notional_amount : Notionals \cup {None}]
    \cup [contract_id : ContractIds, counterparty : CounterpartyNames]

NamedSwapInputs ==
    [contract_id : {"c1"}, counterparty : CounterpartyNames \cup {Falsy},
     notional_amount : {100}]

ObligationInputs == [obligation_type : {"fixed_payment", NoType}]

InstrumentInputs ==
    [identifier : SecurityIdentifiers \cup {Falsy}, instrument_type : {"equity", NoType}]

TriggerInputs ==
    [trigger_type : TriggerTypes \cup {NoType}, is_active : BOOLEAN]
    \cup [trigger_type : TriggerTypes]

AnalysisInputs == [risk_score : {42}]

SwapIds == 1..MaxId
ObligationIds == 1..MaxId

\* A contract as the ingestion paths hand it to save_swap: every key present.
OneSwapInputs ==
    [contract_id : ContractIds, counterparty : {GS_upper}, notional_amount : {100}]

OneInstrumentInputs == [identifier : {GME_upper}, instrument_type : {"equity", NoType}]

ActiveTriggerInputs == [trigger_type : {"time_based", NoType}]

Workers == {1, 2}
Idle == [pc |-> "idle", kind |-> "none", name |-> Falsy, found |-> NULL, result |-> "none",
         id |-> NULL]

---------------------------------------------------------------------------
Init ==
    /\ counterparties = {}
    /\ securities = {}
    /\ swaps = {}
    /\ obligations = {}
    /\ triggers = {}
    /\ instruments = {}
    /\ analyses = {}
    /\ ret = Result("init", Falsy, "ok", NULL)
    /\ last_notional = [c \in ContractIds |-> None]
    /\ workers = [w \in Workers |-> Idle]
    /\ contract = NoContract
    /\ derived = NotDerived
    /\ risk = NoRisk
    /\ batch = NoBatch
    /\ analyzer = NoAnalyzer
    /\ limiter = NoLimiter

\* The model's bound on the swaps table: an update needs no new id.
RoomForSwap(swap_data) ==
    swap_by_contract_id(swap_data.contract_id) # {} \/ NextId(swaps) <= MaxId

\* The model's bound on the rows owned by contracts.
RoomFor(table) ==
    /\ NextId(table) <= MaxId
    /\ Cardinality(obligations) + Cardinality(triggers) + Cardinality(instruments)
         + Cardinality(analyses) < MaxRows

\* Contracts with their obligations, triggers, instruments and analysis.
Next ==
    \/ \E swap_data \in OneSwapInputs :
          /\ RoomForSwap(swap_data)
          /\ save_swap(swap_data)
    \/ \E contract_id \in ContractIds : delete_swap(contract_id)
    \/ \E swap_id \in SwapIds, obligation_data \in ObligationInputs :
          /\ RoomFor(obligations)
          /\ add_obligation(swap_id, obligation_data)
    \/ \E swap_id \in SwapIds, instrument_data \in OneInstrumentInputs :
          /\ RoomFor(instruments)
          /\ add_underlying_instrument(swap_id, instrument_data)
    \/ \E obligation_id \in ObligationIds, trigger_data \in ActiveTriggerInputs :
          /\ RoomFor(triggers)
          /\ add_obligation_trigger(obligation_id, trigger_data)
    \/ \E swap_id \in SwapIds, analysis_data \in AnalysisInputs :
          /\ RoomFor(analyses)
          /\ save_analysis(swap_id, analysis_data)

Spec == Init /\ [][Next]_vars

\* Upsert: contracts saved again with another notional, another counterparty, or
\* without a notional.
NextUpsert ==
    \/ \E swap_data \in SwapInputs :
          /\ RoomForSwap(swap_data)
          /\ save_swap(swap_data)
    \/ \E contract_id \in ContractIds : delete_swap(contract_id)

SpecUpsert == Init /\ [][NextUpsert]_vars

\* Entity resolution: every operation that creates a Counterparty or a
\* ReferenceSecurity, with names that differ in case only.
NextEntities ==
    \/ \E name \in CounterpartyNames : get_or_create_counterparty(name)
    \/ \E identifier \in SecurityIdentifiers : get_or_create_security(identifier)
    \/ \E swap_data \in NamedSwapInputs :
          /\ RoomForSwap(swap_data)
          /\ save_swap(swap_data)
    \/ \E swap_id \in SwapIds, instrument_data \in InstrumentInputs :
          /\ NextId(instruments) <= MaxId
          /\ add_underlying_instrument(swap_id, instrument_data)

SpecEntities == Init /\ [][NextEntities]_vars

\* The analyzer derives the obligations of one contract.
EffectiveDates == {Date(2025, 1, 1), Date(2024, 1, 31), Date(2024, 11, 30),
                   Date(2024, 2, 29)}

FixedRates == {NoRate, <<0, 1>>, <<4, 1>>, <<5, 2>>}

ExplicitObligations ==
    {<<>>,
     <<obligation("custom_fee", fraction(5, 1), NoDate, "pending")>>,
     <<NotADict, obligation("protection_payment", fraction(7, 1), NoDate, "pending")>>}

ExplicitTriggers == {<<>>, <<NotADict, trigger("custom", [on |-> "custom"])>>}

ReferenceEntities == {GME_upper, IBM_upper}

SwapContract ==
    [swap_type : SwapType,
     payment_frequency : PaymentFrequency,
     fixed_rate : FixedRates,
     floating_rate_index : {Falsy, <<83, 79, 70, 82>>},
     notional_amount : {0, 1000000},
     effective_date : EffectiveDates,
     reference_entity : ReferenceEntities,
     additional_terms : [obligations : ExplicitObligations, triggers : ExplicitTriggers]]

InitDerive ==
    /\ counterparties = {} /\ securities = {} /\ swaps = {}
    /\ obligations = {} /\ triggers = {} /\ instruments = {} /\ analyses = {}
    /\ ret = Result("init", Falsy, "ok", NULL)
    /\ last_notional = [c \in ContractIds |-> None]
    /\ workers = [w \in Workers |-> Idle]
    /\ contract \in SwapContract
    /\ derived = NotDerived
    /\ risk = NoRisk
    /\ batch = NoBatch
    /\ analyzer = NoAnalyzer
    /\ limiter = NoLimiter

NextDerive == extract_obligations

SpecDerive == InitDerive /\ [][NextDerive]_vars

\* The scorer is called with one tuple of arguments.
MaxTypes == 2

RECURSIVE lists_of(_, _)
lists_of(S, n) ==
    IF n = 0 THEN {<<>>}
    ELSE lists_of(S, n - 1) \cup {Append(l, x) : l \in lists_of(S, n - 1), x \in S}

NoScores == [notional |-> <<0, 1>>, maturity |-> <<0, 1>>, counterparty |-> <<0, 1>>,
             currency |-> <<0, 1>>, type |-> <<0, 1>>]

ScoreInputs ==
    [done : {FALSE}, caller : {"direct"},
     total_notional : {0, 1000000, 100000000, 400000000},
     avg_time_to_maturity : {<<0, 1>>, <<1, 2>>, <<5, 1>>, <<15, 1>>},
     counterparty_concentration : {<<0, 1>>, <<3, 10>>, <<1, 1>>},
     currency_concentration : {<<0, 1>>, <<1, 2>>, <<1, 1>>},
     swap_types : lists_of(SwapType, MaxTypes),
     scores : {NoScores}, risk_score : {<<0, 1>>}]

InitScore ==
    /\ counterparties = {} /\ securities = {} /\ swaps = {}
    /\ obligations = {} /\ triggers = {} /\ instruments = {} /\ analyses = {}
    /\ ret = Result("init", Falsy, "ok", NULL)
    /\ last_notional = [c \in ContractIds |-> None]
    /\ workers = [w \in Workers |-> Idle]
    /\ contract = NoContract
    /\ derived = NotDerived
    /\ risk \in ScoreInputs
    /\ batch = NoBatch
    /\ analyzer = NoAnalyzer
    /\ limiter = NoLimiter

NextScore == calculate_risk_score

SpecScore == InitScore /\ [][NextScore]_vars

\* A risk report is asked for an entity with up to MaxSwaps matched contracts.
MaxSwaps == 2


EntitySwaps ==
    [notional_amount : {0, 4000000, 100000000},
     counterparty : {GS_upper, EC_upper},
     currency : {USD_upper, USD_lower},
     swap_type : {"interest_rate", "currency", "credit_default"},
     days_to_maturity : {0, 1461}]

ReportInputs ==
    [done : {FALSE}, caller : {"report"}, error : {FALSE},
     entity_swaps : lists_of(EntitySwaps, MaxSwaps),
     total_notional : {0}, exposure : {calculate_exposure(<<>>)},
     avg_time_to_maturity : {<<0, 1>>},
     counterparty_concentration : {<<0, 1>>}, currency_concentration : {<<0, 1>>},
     swap_types : {<<>>}, scores : {NoScores}, risk_score : {<<0, 1>>},
     risk_level : {"none"}]

InitReport ==
    /\ counterparties = {} /\ securities = {} /\ swaps = {}
    /\ obligations = {} /\ triggers = {} /\ instruments = {} /\ analyses = {}
    /\ ret = Result("init", Falsy, "ok", NULL)
    /\ last_notional = [c \in ContractIds |-> None]
    /\ workers = [w \in Workers |-> Idle]
    /\ contract = NoContract
    /\ derived = NotDerived
    /\ risk \in ReportInputs
    /\ batch = NoBatch
    /\ analyzer = NoAnalyzer
    /\ limiter = NoLimiter

NextReport == generate_risk_report

SpecReport == InitReport /\ [][NextReport]_vars

\* Records to normalize: a dict with the key `key` (no key when it is Missing).
cell(key, value) == IF key = Missing THEN <<>> ELSE key :> value

PresentOrNot(key) == {key, Missing}
RawNotionals == {"1000000", "invalid_notional"}

Records ==
    {cell(contract_id_key, "c1") @@ cell(counterparty_key, "GS")
        @@ cell(reference_entity_key, "GME") @@ cell(notional_key, notional)
        @@ cell(effective_key, effective_date) @@ cell(maturity_key, "2026-01-01")
        @@ cell(swap_type_key, swap_type) @@ cell(frequency_key, frequency)
        @@ cell(fixed_rate_key, fixed_rate) @@ cell(spread_key, spread) :
     contract_id_key \in {"contract_id", "swap_id", "dissemination identifier", Missing},
     counterparty_key \in PresentOrNot("counterparty"),
     reference_entity_key \in PresentOrNot("reference_entity"),
     notional_key \in PresentOrNot("notional_amount"),
     notional \in RawNotionals,
     effective_key \in PresentOrNot("effective_date"),
     effective_date \in {"2025-01-01", "01/02/2026", "not a date"},
     maturity_key \in {"maturity_date", "expiration date", "expiry_date", Missing},
     swap_type_key \in PresentOrNot("swap_type"),
     swap_type \in {"CREDIT_DEFAULT", "exotic"},
     frequency_key \in PresentOrNot("payment_frequency"),
     frequency \in {"Monthly", "fortnightly"},
     fixed_rate_key \in PresentOrNot("fixed_rate"),
     fixed_rate \in {"4.0", "n/a"},
     spread_key \in PresentOrNot("floating_rate_spread"),
     spread \in {"0.5", "n/a"}}

InitNormalize ==
    /\ counterparties = {} /\ securities = {} /\ swaps = {}
    /\ obligations = {} /\ triggers = {} /\ instruments = {} /\ analyses = {}
    /\ ret = Result("init", Falsy, "ok", NULL)
    /\ last_notional = [c \in ContractIds |-> None]
    /\ workers = [w \in Workers |-> Idle]
    /\ contract = NoContract
    /\ derived = NotDerived
    /\ risk = NoRisk
    /\ batch \in [kind : {"record"}, record : Records,
                  table : {NotProcessed}, json : {NotProcessed}]
    /\ analyzer = NoAnalyzer
    /\ limiter = NoLimiter

NextNormalize == process_table \/ process_json

SpecNormalize == InitNormalize /\ [][NextNormalize]_vars

\* Files to ingest: tables of FileRows rows with all six required columns.
FileRows == 3

IngestRows ==
    [contract_id : ContractIds, counterparty : {"GS", "gs", "[E-acute]C"},
     reference_entity : {"GME", "gme"}, notional_amount : RawNotionals,
     effective_date : {"2025-01-01"}, maturity_date : {"2026-01-01"}]

InitIngest ==
    /\ counterparties = {} /\ securities = {} /\ swaps = {}
    /\ obligations = {} /\ triggers = {} /\ instruments = {} /\ analyses = {}
    /\ ret = Result("init", Falsy, "ok", NULL)
    /\ last_notional = [c \in ContractIds |-> None]
    /\ workers = [w \in Workers |-> Idle]
    /\ contract = NoContract
    /\ derived = NotDerived
    /\ risk = NoRisk
    /\ batch \in [kind : {"file"}, rows : [1..FileRows -> IngestRows],
                  done : {FALSE}, loaded_swaps : {<<>>}]
    /\ analyzer = NoAnalyzer
    /\ limiter = NoLimiter

NextIngest == process_filing

SpecIngest == InitIngest /\ [][NextIngest]_vars

\* Batches of BatchSize contracts built by the caller: the counterparty may be
\* empty and the notional None, which a file never yields.
BatchSize == 2

BatchContracts ==
    [contract_id : ContractIds, counterparty : {"GS", "gs", ""},
     reference_entity : {"GME"}, notional_amount : {<<1000000, 1>>, <<500000, 1>>, NoRate},
     currency : {"USD"}, effective_date : {"2025-01-01"}, maturity_date : {"2026-01-01"},
     swap_type : {"other"}, payment_frequency : {"quarterly"}, fixed_rate : {NoRate},
     floating_rate_index : {Missing}, floating_rate_spread : {NoRate}]

InitBatch ==
    /\ counterparties \in {{}, {[id |-> 1, name |-> GS_upper]}}
    /\ securities = {} /\ swaps = {}
    /\ obligations = {} /\ triggers = {} /\ instruments = {} /\ analyses = {}
    /\ ret = Result("init", Falsy, "ok", NULL)
    /\ last_notional = [c \in ContractIds |-> None]
    /\ workers = [w \in Workers |-> Idle]
    /\ contract = NoContract
    /\ derived = NotDerived
    /\ risk = NoRisk
    /\ batch \in [kind : {"batch"}, swaps : [1..BatchSize -> BatchContracts],
                  done : {FALSE}, known : {{}}]
    /\ analyzer = NoAnalyzer
    /\ limiter = NoLimiter

NextBatch == save_batch

SpecBatch == InitBatch /\ [][NextBatch]_vars

\* Values of the optional columns; the first of each is the empty one (None; {}).
Rates == {NoRate, <<4, 1>>}
Indexes == {Missing, "SOFR"}
Terms == {"{}", "{'threshold': 5}"}

\* The keys of SwapContract.to_dict(), and those of a dict that gives the required
\* fields only.
ToDictKeys ==
    {"contract_id", "counterparty", "notional_amount", "fixed_rate",
     "floating_rate_index", "additional_terms"}

RequiredKeys == {"contract_id", "counterparty", "notional_amount"}

\* A dict with the given keys.
SwapData(keys, counterparty, notional_amount, fixed_rate, floating_rate_index, additional_terms) ==
    [k \in keys |->
        CASE k = "contract_id" -> "c1"
          [] k = "counterparty" -> counterparty
          [] k = "notional_amount" -> notional_amount
          [] k = "fixed_rate" -> fixed_rate
          [] k = "floating_rate_index" -> floating_rate_index
          [] k = "additional_terms" -> additional_terms]

UpsertInputs ==
    {SwapData(keys, counterparty, notional_amount, fixed_rate, floating_rate_index,
              additional_terms) :
        keys \in {ToDictKeys, RequiredKeys}, counterparty \in {GS_upper, GS_lower},
        notional_amount \in {<<1000000, 1>>, <<500000, 1>>}, fixed_rate \in Rates,
        floating_rate_index \in Indexes, additional_terms \in Terms}

\* The row of c1, saved at time 1 for the counterparty GS; the clock shows 2.
InitUpsert ==
    /\ counterparties = {[id |-> 1, name |-> GS_upper]}
    /\ securities = {} /\ swaps = {}
    /\ obligations = {} /\ triggers = {} /\ instruments = {} /\ analyses = {}
    /\ ret = Result("init", Falsy, "ok", NULL)
    /\ last_notional = [c \in ContractIds |-> None]
    /\ workers = [w \in Workers |-> Idle]
    /\ contract = NoContract
    /\ derived = NotDerived
    /\ risk = NoRisk
    /\ batch \in [kind : {"upsert"},
                  row : [id : {1}, contract_id : {"c1"}, counterparty_id : {1},
                         notional_amount : {<<1000000, 1>>}, fixed_rate : Rates,
                         floating_rate_index : Indexes, additional_terms : Terms,
                         created_at : {1}, updated_at : {1}],
                  swap_data : UpsertInputs, now : {2}, done : {FALSE},
                  previous : {<<>>}, counterparty_id : {NULL}]
    /\ analyzer = NoAnalyzer
    /\ limiter = NoLimiter

NextUpsertRow == save_existing_swap

SpecUpsertRow == InitUpsert /\ [][NextUpsertRow]_vars

\* One-row tables for the analyzer: credit default swaps of GS on GME, the first
\* of them the record CDS1 of the end-to-end scenario.
AnalyzerRows ==
    [contract_id : ContractIds, counterparty : {"GS"}, reference_entity : {"GME"},
     notional_amount : {"1000000", "500000"}, effective_date : {"2025-01-01"},
     maturity_date : {"2026-01-01"}, swap_type : {"CREDIT_DEFAULT"}]

\* The contract a row is loaded as.
AnalyzerContracts == {_process_dataframe(<<row>>)[1] : row \in AnalyzerRows}

\* Dicts given to DatabaseHandler.save_swap by a caller other than the analyzer.
DirectSaves ==
    [contract_id : ContractIds, counterparty : {GS_upper}, notional_amount : {1000000}]

\* SwapsAnalyzer.__init__ on a new database.
InitAnalyzer ==
    /\ counterparties = {} /\ securities = {} /\ swaps = {}
    /\ obligations = {} /\ triggers = {} /\ instruments = {} /\ analyses = {}
    /\ ret = Result("init", Falsy, "ok", NULL)
    /\ last_notional = [c \in ContractIds |-> None]
    /\ workers = [w \in Workers |-> Idle]
    /\ contract = NoContract
    /\ derived = NotDerived
    /\ risk = NoRisk
    /\ batch = NoBatch
    /\ analyzer = [kind |-> "analyzer", _loaded_swaps |-> <<>>, cached |-> FALSE,
                   _db_swaps_cache |-> {}, snapshot |-> {}, queries |-> 0,
                   hit |-> FALSE, stale |-> FALSE,
                   answer |-> Answer("none", Falsy, "none", 0, 0)]
    /\ limiter = NoLimiter

NextAnalyzer ==
    \/ \E row \in AnalyzerRows, save_to_db \in BOOLEAN :
          load_swaps_from_file(<<row>>, save_to_db)
    \/ swaps_read
    \/ clear_cache
    \/ \E entity_name \in {GME_lower, IBM_upper} : analyzer_calculate_exposure(entity_name)
    \/ \E entity_name \in {GME_lower, IBM_upper} : analyzer_generate_risk_report(entity_name)
    \/ \E counterparty \in {GS_lower, EC_upper} : analyze_counterparty_risk(counterparty)
    \/ \E swap_data \in DirectSaves :
          /\ RoomForSwap(swap_data)
          /\ save_swap(swap_data)
    \/ \E contract_id \in ContractIds : delete_swap(contract_id)

SpecAnalyzer == InitAnalyzer /\ [][NextAnalyzer]_vars

\* The steps of the per-contract sequence, each called on the database handler as
\* _save_swaps_to_db calls them, any number of times.
NextDetails ==
    \/ \E swap \in AnalyzerContracts :
          /\ RoomForSwap(swap)
          /\ save_swap(entity_swap(swap))
    \/ \E swap \in AnalyzerContracts : _process_swap_details(swap)
    \/ \E contract_id \in ContractIds : delete_swap(contract_id)

SpecDetails == InitAnalyzer /\ [][NextDetails]_vars

---------------------------------------------------------------------------
(* The token bucket: RateLimiter in gamecock/rate_limiter.py *)

\* Time is counted in ticks and tokens in parts: a token has Granularity parts and
\* one tick refills one part, so time_window is max_requests * Granularity ticks.
\* time.time() is taken to be non-decreasing; the rounding of float arithmetic is
\* not modelled.
max_requests == 2
Granularity == 2
MaxTime == 6
MaxGrants == 4
Threads == {1, 2, 3}
NoThread == 0

\* The parts of a whole bucket, and of one token.
max_tokens == max_requests * Granularity
one_token == Granularity

\* Mutant: the refill is not capped at max_tokens.
_add_tokens_uncapped(l) ==
    [l EXCEPT !.tokens = l.tokens + (l.now - l.last_update), !.last_update = l.now]

\* RateLimiter._add_tokens: new_tokens = time_passed * (max_tokens / time_window),
\* that is one part per tick.
_add_tokens(l) ==
    [l EXCEPT !.tokens = Min({max_tokens, l.tokens + (l.now - l.last_update)}),
              !.last_update = l.now]

\* A thread calls acquire and waits for the lock.
acquire_call(t) ==
    /\ limiter.kind = "limiter"
    /\ limiter.pc[t] = "idle"
    /\ limiter.granted + Cardinality({u \in Threads : limiter.pc[u] # "idle"}) < MaxGrants
    /\ limiter' = [limiter EXCEPT !.pc[t] = "lock"]

\* `with self.lock`: one of the waiting threads enters when the lock is free.
acquire_lock(t) ==
    /\ limiter.kind = "limiter"
    /\ limiter.pc[t] = "lock"
    /\ limiter.lock = NoThread
    /\ limiter' = [limiter EXCEPT !.pc[t] = "loop", !.lock = t]

\* One pass of the loop of acquire: refill, then take a token and return (the lock
\* is released), or go to sleep for (1 - tokens) * (time_window / max_tokens).
acquire_loop(t) ==
    /\ limiter.kind = "limiter"
    /\ limiter.pc[t] = "loop"
    /\ LET filled == _add_tokens(limiter)
           sleep_time == one_token - filled.tokens
       IN  IF filled.tokens >= one_token
           THEN limiter' = [filled EXCEPT !.tokens = @ - one_token,
                                          !.pc[t] = "idle",
                                          !.lock = NoThread,
                                          !.granted = @ + 1]
           ELSE limiter' = [filled EXCEPT !.pc[t] = "sleep",
                                          !.wake[t] = filled.now + sleep_time,
                                          !.slept[t] = @ + sleep_time]

\* time.sleep returns once the time asked for has passed, perhaps later.
sleep_return(t) ==
    /\ limiter.kind = "limiter"
    /\ limiter.pc[t] = "sleep"
    /\ limiter.now >= limiter.wake[t]
    /\ limiter' = [limiter EXCEPT !.pc[t] = "loop"]

\* The clock advances.
tick ==
    /\ limiter.kind = "limiter"
    /\ limiter.now < MaxTime
    /\ limiter' = [limiter EXCEPT !.now = @ + 1]

\* RateLimiter.__init__: a full bucket, nobody inside.
InitLimiter ==
    /\ counterparties = {} /\ securities = {} /\ swaps = {}
    /\ obligations = {} /\ triggers = {} /\ instruments = {} /\ analyses = {}
    /\ ret = Result("init", Falsy, "ok", NULL)
    /\ last_notional = [c \in ContractIds |-> None]
    /\ workers = [w \in Workers |-> Idle]
    /\ contract = NoContract
    /\ derived = NotDerived
    /\ risk = NoRisk
    /\ batch = NoBatch
    /\ analyzer = NoAnalyzer
    /\ limiter = [kind |-> "limiter", tokens |-> max_tokens, last_update |-> 0,
                  now |-> 0, lock |-> NoThread, pc |-> [t \in Threads |-> "idle"],
                  wake |-> [t \in Threads |-> 0], slept |-> [t \in Threads |-> 0],
                  granted |-> 0]

NextLimiter ==
    \/ /\ \E t \in Threads :
             acquire_call(t) \/ acquire_lock(t) \/ acquire_loop(t) \/ sleep_return(t)
       /\ UNCHANGED <<tables, ret, last_notional, workers, contract, derived, risk,
                      batch, analyzer>>
    \/ /\ tick
       /\ UNCHANGED <<tables, ret, last_notional, workers, contract, derived, risk,
                      batch, analyzer>>

SpecLimiter == InitLimiter /\ [][NextLimiter]_vars

---------------------------------------------------------------------------
(* The narrative collaborator: OllamaHandler in gamecock/ollama_handler.py,
   and its two callers in SwapsAnalyzer *)
NoText == "<None>"           \* Python None where a string is expected
Narrative == "<text of the model>"

\* What the HTTP exchange with the service can do.
HttpOutcomes == {"200", "200 without response", "500", "timeout", "refused"}

\* OllamaHandler.is_running: the tags request answered 200; any exception is False.
is_running(service) == service.up

\* OllamaHandler.is_model_available: the model is in the list of the tags answer.
is_model_available(service) == service.up /\ service.has_model

\* OllamaHandler.generate: the response text of a 200 answer, None for another
\* status, for a 200 answer without the key, and for every exception (time-out
\* and refused connection included).
ollama_generate(service) ==
    IF service.post = "200" THEN Narrative ELSE NoText

\* A collaborator given to the constructor in place of an OllamaHandler may raise
\* from generate (the test double of test_explain_swap_generation_error does).
generate(service) ==
    IF service.raises THEN Raised ELSE ollama_generate(service)

\* The end of generate_risk_report: the ai_summary entry of the report, NoText
\* when the report has none, Raised when the call does not return.
ai_summary(service, include_analysis) ==
    IF include_analysis /\ is_running(service) /\ is_model_available(service)
    THEN LET summary == generate(service)
         IN  IF summary = Raised THEN Raised
             ELSE IF summary = NoText THEN "Failed to generate AI summary."
             ELSE summary
    ELSE IF include_analysis THEN "Ollama service not available for AI summary."
    ELSE NoText

\* SwapsAnalyzer.explain_swap for a contract of the read view.
explain_swap_of(service, found) ==
    IF ~is_running(service) \/ ~is_model_available(service)
    THEN "Ollama service is not available. Please ensure it is running and the model is downloaded."
    ELSE IF ~found THEN "No swap found with Contract ID"
    ELSE LET explanation == generate(service)
         IN  IF explanation = Raised
             THEN "An error occurred while generating the explanation."
             ELSE explanation

\* generate_risk_report(entity_name, include_analysis) for an entity with swaps.
report_with_summary ==
    /\ analyzer.kind = "narrative"
    /\ ~analyzer.done
    /\ analyzer.found
    /\ analyzer' = [analyzer EXCEPT !.done = TRUE, !.call = "generate_risk_report",
                        !.answer = ai_summary(analyzer.service, analyzer.include_analysis)]

\* explain_swap(contract_id)
explain_swap ==
    /\ analyzer.kind = "narrative"
    /\ ~analyzer.done
    /\ analyzer' = [analyzer EXCEPT !.done = TRUE, !.call = "explain_swap",
                        !.answer = explain_swap_of(analyzer.service, analyzer.found)]

Services ==
    [up : BOOLEAN, has_model : BOOLEAN, post : HttpOutcomes, raises : BOOLEAN]

InitNarrative ==
    /\ counterparties = {} /\ securities = {} /\ swaps = {}
    /\ obligations = {} /\ triggers = {} /\ instruments = {} /\ analyses = {}
    /\ ret = Result("init", Falsy, "ok", NULL)
    /\ last_notional = [c \in ContractIds |-> None]
    /\ workers = [w \in Workers |-> Idle]
    /\ contract = NoContract
    /\ derived = NotDerived
    /\ risk = NoRisk
    /\ batch = NoBatch
    /\ analyzer \in [kind : {"narrative"}, service : Services, found : BOOLEAN,
                     include_analysis : BOOLEAN, done : {FALSE}, call : {"none"},
                     answer : {NoText}]
    /\ limiter = NoLimiter

NextNarrative ==
    \/ /\ report_with_summary
       /\ UNCHANGED <<tables, ret, last_notional, workers, contract, derived, risk,
                      batch, limiter>>
    \/ /\ explain_swap
       /\ UNCHANGED <<tables, ret, last_notional, workers, contract, derived, risk,
                      batch, limiter>>

SpecNarrative == InitNarrative /\ [][NextNarrative]_vars

\* Two workers, each in one call of get_or_create_counterparty or
\* get_or_create_security, on an empty database.
RaceNames == {GS_upper, GS_lower}

NextRace ==
    \/ \E w \in Workers, kind \in {"counterparty", "security"}, name \in RaceNames :
          worker_select(w, kind, name)
    \/ \E w \in Workers : worker_commit(w)

SpecRace == Init /\ [][NextRace]_vars

\* The read view: contracts, obligations, instruments and triggers, active or not.
NextView ==
    \/ \E swap_data \in OneSwapInputs :
          /\ RoomForSwap(swap_data)
          /\ save_swap(swap_data)
    \/ \E swap_id \in SwapIds, obligation_data \in ObligationInputs :
          /\ RoomFor(obligations)
          /\ add_obligation(swap_id, obligation_data)
    \/ \E swap_id \in SwapIds, instrument_data \in OneInstrumentInputs :
          /\ RoomFor(instruments)
          /\ add_underlying_instrument(swap_id, instrument_data)
    \/ \E obligation_id \in ObligationIds, trigger_data \in TriggerInputs :
          /\ RoomFor(triggers)
          /\ add_obligation_trigger(obligation_id, trigger_data)

SpecView == Init /\ [][NextView]_vars

---------------------------------------------------------------------------
(* Claims *)

\* C1: after any sequence of save_swap calls the swaps table holds at most one
\* row per contract_id, and that row's notional_amount is the value given by the
\* most recent successful save_swap of that contract_id that gave one.
C1_UpsertOneRowLatestNotional ==
    \A c \in ContractIds :
        /\ Cardinality(swap_by_contract_id(c)) <= 1
        /\ \A s \in swap_by_contract_id(c) : s.notional_amount = last_notional[c]

\* C1 witness: c1 was saved before c2 (it holds the smaller id) and has just been
\* saved again, with notional 200; the table holds c1 once.
C1_Witness ==
    /\ ret.op = "save_swap" /\ ret.status = "ok" /\ ret.arg = "c1"
    /\ \E s \in swaps : s.contract_id = "c1" /\ s.id = 1 /\ s.notional_amount = 200
    /\ \E s \in swaps : s.contract_id = "c2" /\ s.id = 2

\* C2: delete_swap on an existing contract returns True and removes the contract
\* with every obligation, every trigger of those obligations, every underlying
\* instrument and the analysis that belong to it, and nothing else; Counterparty
\* and ReferenceSecurity rows are unchanged. On an unknown contract_id it returns
\* False and changes nothing.
C2_DeleteSwapCascades ==
    [][ret'.op = "delete_swap" =>
          LET found == {s \in swaps : s.contract_id = ret'.arg}
              ids == {s.id : s \in found}
              owned == {o \in obligations : o.swap_id \in ids}
          IN  /\ ret'.status = (IF found # {} THEN "true" ELSE "false")
              /\ swaps' = swaps \ found
              /\ obligations' = obligations \ owned
              /\ triggers' = {t \in triggers : t.obligation_id \notin {o.id : o \in owned}}
              /\ instruments' = {u \in instruments : u.swap_id \notin ids}
              /\ analyses' = {a \in analyses : a.swap_id \notin ids}
              /\ counterparties' = counterparties
              /\ securities' = securities
              /\ found = {} => UNCHANGED tables]_vars

\* C2 witness: a delete_swap has returned True; trigger 1 went with its obligation
\* (trigger 2 is still there), the contract's instrument went too, and the
\* counterparty and the security the contract referred to are still there.
C2_Witness ==
    /\ ret.op = "delete_swap" /\ ret.status = "true"
    /\ \E t \in triggers : t.id = 2
    /\ ~\E t \in triggers : t.id = 1
    /\ instruments = {} /\ securities # {} /\ counterparties # {}

\* C3: every SwapObligation and UnderlyingInstrument row refers to an existing swap
\* and every ObligationTrigger row refers to an existing obligation.
C3_NoOrphanRows ==
    /\ \A o \in obligations : \E s \in swaps : s.id = o.swap_id
    /\ \A u \in instruments : \E s \in swaps : s.id = u.swap_id
    /\ \A t \in triggers : \E o \in obligations : o.id = t.obligation_id

\* C4: no two Counterparty rows have names equal ignoring case, and no two
\* ReferenceSecurity rows have identifiers equal ignoring case.
C4_NamesUniqueIgnoringCase ==
    /\ \A a, b \in counterparties : lower(a.name) = lower(b.name) => a = b
    /\ \A a, b \in securities : lower(a.identifier) = lower(b.identifier) => a = b

\* C5: get_or_create_counterparty and get_or_create_security are idempotent up to
\* letter case: a call returns a row whose name equals the argument ignoring case,
\* inserts exactly one row when no such row exists and none otherwise, and a call
\* that follows a call for the same name (in any case) returns the same row id and
\* inserts nothing.
C5_GetOrCreateIdempotent ==
    [][/\ ret'.op = "get_or_create_counterparty" =>
            LET matching == {c \in counterparties : lower(c.name) = lower(ret'.arg)}
            IN  /\ \E c \in counterparties' :
                      c.id = ret'.id /\ lower(c.name) = lower(ret'.arg)
                /\ matching # {} => counterparties' = counterparties
                /\ matching = {} =>
                      /\ counterparties \subseteq counterparties'
                      /\ Cardinality(counterparties') = Cardinality(counterparties) + 1
                /\ (ret.op = "get_or_create_counterparty"
                        /\ lower(ret.arg) = lower(ret'.arg)) =>
                      ret'.id = ret.id /\ counterparties' = counterparties
       /\ ret'.op = "get_or_create_security" =>
            LET matching == {x \in securities : lower(x.identifier) = lower(ret'.arg)}
            IN  /\ \E x \in securities' :
                      x.id = ret'.id /\ lower(x.identifier) = lower(ret'.arg)
                /\ matching # {} => securities' = securities
                /\ matching = {} =>
                      /\ securities \subseteq securities'
                      /\ Cardinality(securities') = Cardinality(securities) + 1
                /\ (ret.op = "get_or_create_security"
                        /\ lower(ret.arg) = lower(ret'.arg)) =>
                      ret'.id = ret.id /\ securities' = securities]_vars

\* The contracts C7 is about: at least one obligation and one instrument, and every
\* obligation with no trigger or with exactly one trigger, which is active.
C7_Covers(s) ==
    /\ obligations_of(s.id) # {}
    /\ instruments_of(s.id) # {}
    /\ \A o \in obligations_of(s.id) :
          /\ Cardinality(triggers_of(o.id)) <= 1
          /\ \A t \in triggers_of(o.id) : t.is_active

\* C7: for such a contract with m obligations and n instruments,
\* get_swap_obligations_view returns exactly m x n rows, one for every pair of an
\* obligation and an instrument of the contract.
C7_ViewRowsAreObligationsTimesInstruments ==
    \A s \in swaps : C7_Covers(s) =>
        LET rows == get_swap_obligations_view(s.id)
        IN  /\ Cardinality(rows) =
                 Cardinality(obligations_of(s.id)) * Cardinality(instruments_of(s.id))
            /\ \A o \in obligations_of(s.id), u \in instruments_of(s.id) :
                 \E r \in rows : r.obligation_id = o.id /\ r.instrument_rowid = u.id
            /\ rows = {r \in get_swap_obligations_view(NULL) : r.contract_id = s.contract_id}

\* C7 witness: a contract with two obligations, one of them with an active trigger,
\* and one instrument.
C7_Witness ==
    \E s \in swaps :
        /\ C7_Covers(s)
        /\ Cardinality(obligations_of(s.id)) = 2
        /\ Cardinality(instruments_of(s.id)) = 1
        /\ \E o \in obligations_of(s.id) : triggers_of(o.id) # {}
        /\ Cardinality(get_swap_obligations_view(s.id)) = 2

\* C8: no row of get_swap_obligations_view carries the trigger columns of a
\* trigger whose is_active flag is false.
C8_NoInactiveTriggerInView ==
    \A r \in get_swap_obligations_view(NULL) :
        IF r.trigger_rowid = NULL
        THEN r.trigger_type = NoType
        ELSE \E t \in triggers :
                /\ t.id = r.trigger_rowid
                /\ t.is_active
                /\ t.obligation_id = r.obligation_id
                /\ t.trigger_type = r.trigger_type

\* C8 witness: an obligation of a persisted contract has an inactive and an active
\* trigger of different types, and the view shows the obligation with the active one.
C8_Witness ==
    \E s \in swaps : \E o \in obligations_of(s.id) :
        /\ \E t \in triggers_of(o.id) : ~t.is_active /\ t.trigger_type = "credit_event"
        /\ \E t \in triggers_of(o.id) : t.is_active /\ t.trigger_type = "time_based"
        /\ \E r \in get_swap_obligations_view(s.id) :
              r.obligation_id = o.id /\ r.trigger_type = "time_based"

\* C9: every persisted contract appears in at least one row of the view; a
\* contract without obligations and instruments appears exactly once, with nulls,
\* and every obligation of a contract appears, with null trigger columns when all
\* its triggers are inactive.
C9_EveryContractInView ==
    \A s \in swaps :
        LET rows == get_swap_obligations_view(s.id)
        IN  /\ rows # {}
            /\ (obligations_of(s.id) = {} /\ instruments_of(s.id) = {}) =>
                  /\ Cardinality(rows) = 1
                  /\ \A r \in rows : /\ r.obligation_id = NULL
                                     /\ r.instrument_rowid = NULL
                                     /\ r.trigger_rowid = NULL
            /\ \A o \in obligations_of(s.id) :
                  /\ \E r \in rows : r.obligation_id = o.id
                  /\ (\A t \in triggers_of(o.id) : ~t.is_active) =>
                        \E r \in rows : r.obligation_id = o.id /\ r.trigger_rowid = NULL

\* C6: when two workers have called get_or_create_counterparty (or
\* get_or_create_security) for the same name, which did not exist, both calls
\* return the one row of that name: none raises and there are not two rows.
C6_ConcurrentGetOrCreate ==
    \A v, w \in Workers :
        (/\ v # w
         /\ workers[v].pc = "returned" /\ workers[w].pc = "returned"
         /\ workers[v].kind = workers[w].kind
         /\ workers[v].name = workers[w].name) =>
            /\ workers[v].result = "ok" /\ workers[w].result = "ok"
            /\ workers[v].id = workers[w].id
            /\ Cardinality(unique_conflict(workers[v].kind, workers[v].name)) = 1

\* C10: for an INTEREST_RATE contract whose fixed_rate is present, the derived
\* obligations hold exactly one fixed_payment; its amount is
\* notional_amount * fixed_rate/100 / payments_per_year(payment_frequency) and its
\* due date is effective_date plus one period.
C10_payments_per_year ==
    [daily |-> 365, weekly |-> 52, monthly |-> 12, quarterly |-> 4,
     semi_annual |-> 2, annual |-> 1, at_maturity |-> 1]

C10_period_months(frequency) ==
    CASE frequency = "monthly"     -> 1
      [] frequency = "quarterly"   -> 3
      [] frequency = "semi_annual" -> 6
      [] frequency = "annual"      -> 12
      [] OTHER                     -> 3

C10_FixedPaymentOfInterestRateSwap ==
    (derived.done /\ contract.swap_type = "interest_rate" /\ contract.fixed_rate # NoRate) =>
        LET fixed == {i \in DOMAIN derived.obligations :
                         derived.obligations[i].obligation_type = "fixed_payment"}
        IN  /\ Cardinality(fixed) = 1
            /\ \A i \in fixed :
                 /\ derived.obligations[i].amount =
                        fraction(contract.notional_amount * contract.fixed_rate[1],
                                 100 * contract.fixed_rate[2]
                                     * C10_payments_per_year[contract.payment_frequency])
                 /\ derived.obligations[i].due_date =
                        relativedelta(contract.effective_date,
                                      C10_period_months(contract.payment_frequency))

\* The positions of the protection_payment obligations among the given positions of
\* the derived list.
C11_ProtectionPayments(positions) ==
    {i \in positions : derived.obligations[i].obligation_type = "protection_payment"}

\* The protection payment at position i is the one of the CDS rule: the full
\* notional, contingent, no due date, and a credit_event trigger on the contract's
\* reference entity among its triggers.
C11_IsProtectionOfNotional(i) ==
    /\ derived.obligations[i].amount = <<contract.notional_amount, 1>>
    /\ derived.obligations[i].status = "contingent"
    /\ derived.obligations[i].due_date = NoDate
    /\ \E k \in DOMAIN derived.triggers[i] :
          /\ derived.triggers[i][k].trigger_type = "credit_event"
          /\ derived.triggers[i][k].trigger_condition =
                 [on |-> "credit_event", entity |-> contract.reference_entity]
          /\ derived.triggers[i][k].is_active

\* The number of obligations additional_terms supplies: its entries that are dicts.
C11_ExplicitCount ==
    Len(SelectSeq(contract.additional_terms.obligations, LAMBDA info : info # NotADict))

\* C11 as stated: for every CREDIT_DEFAULT contract, whatever its additional_terms,
\* the derived obligations hold exactly one protection_payment, which has amount =
\* notional_amount, status contingent, no due date and a credit_event trigger on the
\* reference entity.
C11_ExactlyOneProtectionPayment ==
    (derived.done /\ contract.swap_type = "credit_default") =>
        /\ Cardinality(C11_ProtectionPayments(DOMAIN derived.obligations)) = 1
        /\ \A i \in C11_ProtectionPayments(DOMAIN derived.obligations) :
              C11_IsProtectionOfNotional(i)

\* C11 amended: for every CREDIT_DEFAULT contract the obligations generated for the
\* type, which precede the explicit ones of additional_terms, hold exactly one
\* protection_payment, with amount = notional_amount, status contingent, no due date
\* and a credit_event trigger on the reference entity; the whole derived list holds
\* exactly one protection_payment when additional_terms supplies none.
C11_OneAutomaticProtectionPayment ==
    (derived.done /\ contract.swap_type = "credit_default") =>
        LET automatic == 1 .. (Len(derived.obligations) - C11_ExplicitCount)
            supplied == (DOMAIN derived.obligations) \ automatic
        IN  /\ Cardinality(C11_ProtectionPayments(automatic)) = 1
            /\ \A i \in C11_ProtectionPayments(automatic) : C11_IsProtectionOfNotional(i)
            /\ C11_ProtectionPayments(supplied) = {} =>
                  Cardinality(C11_ProtectionPayments(DOMAIN derived.obligations)) = 1

\* C11 witness: a CDS of notional 1,000,000 whose additional_terms supply a second
\* protection_payment has been derived.
C11_Witness ==
    /\ derived.done
    /\ contract.swap_type = "credit_default"
    /\ contract.notional_amount = 1000000
    /\ Cardinality(C11_ProtectionPayments(DOMAIN derived.obligations)) = 2

\* The obligations additional_terms supplies: its entries that are dicts, in order.
C12_Explicit ==
    SelectSeq(contract.additional_terms.obligations, LAMBDA info : info # NotADict)

\* The types of the first n derived obligations, in order.
C12_AutomaticTypes(n) == [i \in 1..n |-> derived.obligations[i].obligation_type]

\* C12: one derivation branch fires per swap type. A TOTAL_RETURN contract has one
\* automatic obligation, a total_return_payment of amount 0 with a performance
\* trigger; a CURRENCY, COMMODITY, EQUITY or OTHER contract has none; an
\* INTEREST_RATE contract has only fixed and floating payments and a CREDIT_DEFAULT
\* contract the premium and the protection payment; and for every type the derived
\* list is the automatic obligations followed by the explicit ones, verbatim.
C12_OneBranchThenExplicit ==
    derived.done =>
        LET n == Len(derived.obligations) - Len(C12_Explicit)
            types == C12_AutomaticTypes(n)
        IN  /\ n >= 0
            /\ SubSeq(derived.obligations, n + 1, Len(derived.obligations)) = C12_Explicit
            /\ contract.swap_type = "total_return" =>
                  /\ types = <<"total_return_payment">>
                  /\ derived.obligations[1].amount = <<0, 1>>
                  /\ \E k \in DOMAIN derived.triggers[1] :
                        derived.triggers[1][k].trigger_type = "performance"
            /\ contract.swap_type \in {"currency", "commodity", "equity", "other"} =>
                  types = <<>>
            /\ contract.swap_type = "credit_default" =>
                  types = <<"premium_payment", "protection_payment">>
            /\ contract.swap_type = "interest_rate" =>
                  types \in {<<>>, <<"fixed_payment">>, <<"floating_payment">>,
                             <<"fixed_payment", "floating_payment">>}

\* C12 witness: a TOTAL_RETURN contract with an explicit custom_fee obligation has
\* been derived into two obligations.
C12_Witness ==
    /\ derived.done
    /\ contract.swap_type = "total_return"
    /\ Len(derived.obligations) = 2
    /\ derived.obligations[2].obligation_type = "custom_fee"

\* A score lies in [0, 100].
C13_InRange(x) == frac_le(<<0, 1>>, x) /\ frac_le(x, <<100, 1>>)

\* C13: for valid arguments _calculate_risk_score returns s with 0 <= s <= 100; each
\* of the five sub-scores lies in [0, 100] before it is weighted, and s is the sum
\* of the sub-scores weighted 0.30, 0.20, 0.25, 0.15 and 0.10, rounded to 2 decimals.
C13_RiskScoreInRange ==
    (risk.done /\ risk.caller = "direct") =>
        /\ C13_InRange(risk.scores.notional)
        /\ C13_InRange(risk.scores.maturity)
        /\ C13_InRange(risk.scores.counterparty)
        /\ C13_InRange(risk.scores.currency)
        /\ C13_InRange(risk.scores.type)
        /\ C13_InRange(risk.risk_score)
        /\ risk.risk_score =
              round2(frac_add(frac_mul(risk.scores.notional, <<30, 100>>),
                     frac_add(frac_mul(risk.scores.maturity, <<20, 100>>),
                     frac_add(frac_mul(risk.scores.counterparty, <<25, 100>>),
                     frac_add(frac_mul(risk.scores.currency, <<15, 100>>),
                              frac_mul(risk.scores.type, <<10, 100>>))))))

\* C13 witness: the scorer has returned for a notional of 400,000,000 and an average
\* maturity of 15 years, whose raw sub-scores 200 and 150 were clamped to 100.
C13_Witness ==
    /\ risk.done /\ risk.caller = "direct"
    /\ risk.total_notional = 400000000
    /\ risk.avg_time_to_maturity = <<15, 1>>
    /\ risk.scores.notional = <<100, 1>>
    /\ risk.scores.maturity = <<100, 1>>

\* C16: _calculate_risk_score called with total_notional = 0, avg_time_to_maturity = 0,
\* both concentrations 0 and an empty swap_types list returns exactly 0.
C16_ZeroInputsScoreZero ==
    (/\ risk.done /\ risk.caller = "direct"
     /\ risk.total_notional = 0
     /\ risk.avg_time_to_maturity = <<0, 1>>
     /\ risk.counterparty_concentration = <<0, 1>>
     /\ risk.currency_concentration = <<0, 1>>
     /\ risk.swap_types = <<>>) =>
        risk.risk_score = <<0, 1>>

\* C14: when the contracts matched for an entity have total_notional = 0,
\* generate_risk_report takes both concentrations as 1.0, so the counterparty and
\* currency sub-scores are both 100, and it returns a report, not an error.
C14_ZeroNotionalFullyConcentrated ==
    (/\ risk.done /\ risk.caller = "report"
     /\ risk.entity_swaps # <<>>
     /\ \A i \in DOMAIN risk.entity_swaps : risk.entity_swaps[i].notional_amount = 0) =>
        /\ ~risk.error
        /\ risk.total_notional = 0
        /\ risk.counterparty_concentration = <<1, 1>>
        /\ risk.currency_concentration = <<1, 1>>
        /\ risk.scores.counterparty = <<100, 1>>
        /\ risk.scores.currency = <<100, 1>>
        /\ risk.risk_level \in {"High", "Medium", "Low"}

\* C14 witness: a report has been made for two matched contracts of notional 0 with
\* different counterparties.
C14_Witness ==
    /\ risk.done /\ risk.caller = "report"
    /\ Len(risk.entity_swaps) = 2
    /\ risk.entity_swaps[1].notional_amount = 0
    /\ risk.entity_swaps[2].notional_amount = 0
    /\ risk.entity_swaps[1].counterparty # risk.entity_swaps[2].counterparty
    /\ risk.scores.counterparty = <<100, 1>>

\* C15: generate_risk_report bands the score by strict thresholds: above 75 is
\* "High", above 50 and up to 75 is "Medium", 50 or less is "Low"; the five levels
\* of _get_risk_level do not appear.
C15_RiskLevelBands ==
    (risk.done /\ risk.caller = "report" /\ ~risk.error) =>
        LET hundredths == risk.risk_score[1] * (100 \div risk.risk_score[2])
        IN  /\ 100 % risk.risk_score[2] = 0
            /\ hundredths > 7500 => risk.risk_level = "High"
            /\ (hundredths > 5000 /\ hundredths <= 7500) => risk.risk_level = "Medium"
            /\ hundredths <= 5000 => risk.risk_level = "Low"

\* C15 witness: a report whose score is exactly 75 has been banded "Medium".
C15_Witness ==
    /\ risk.done /\ risk.caller = "report" /\ ~risk.error
    /\ risk.risk_score = <<75, 1>>
    /\ risk.risk_level = "Medium"

\* A record lacks a field when it has none of the keys either mapping table lists
\* for it.
C18_lacks(record, field) ==
    /\ first_name(column_mapping[field], DOMAIN record) = Missing
    /\ first_name(field_mapping[field], DOMAIN record) = Missing

\* C18: a record that lacks one of the required fields contract_id, counterparty,
\* reference_entity, notional_amount, effective_date, maturity_date is skipped by
\* the tabular normalizer and by the JSON normalizer alike: neither emits a contract
\* for it.
C18_MissingRequiredFieldSkipped ==
    (\E field \in required_fields : C18_lacks(batch.record, field))
        => (batch.table.swaps = <<>> /\ batch.json.swaps = <<>>)

\* The record without its swap_type and payment_frequency keys.
C19_without_enums(record) ==
    [k \in DOMAIN record \ {"swap_type", "payment_frequency"} |-> record[k]]

\* The field is absent, or its text matches no member of the enum whatever the case.
C19_absent_or_unrecognized(record, field, members) ==
    field \notin DOMAIN record \/ enum_lower(record[field]) \notin members

\* What C19 asks of the contracts one format emits for the record, given the
\* contracts it emits for the record stripped of the two fields.
C19_defaults(record, emitted, stripped) ==
    LET no_type == C19_absent_or_unrecognized(record, "swap_type", SwapType)
        no_frequency ==
            C19_absent_or_unrecognized(record, "payment_frequency", PaymentFrequency)
    IN  (stripped # <<>> /\ (no_type \/ no_frequency))
            => /\ emitted # <<>>
               /\ no_type => emitted[1].swap_type = "other"
               /\ no_frequency => emitted[1].payment_frequency = "quarterly"

\* C19: a record whose swap type or payment frequency is absent, or is a text that
\* matches no enum member ignoring case, is still emitted (when the rest of the
\* record is acceptable), with swap_type OTHER and payment_frequency QUARTERLY
\* respectively, by both normalizers.
C19_AbsentOrUnrecognizedEnumDefaults ==
    /\ batch.table.done =>
          C19_defaults(batch.record, batch.table.swaps,
                       _process_dataframe(<<C19_without_enums(batch.record)>>))
    /\ batch.json.done =>
          C19_defaults(batch.record, batch.json.swaps,
                       _process_json(<<C19_without_enums(batch.record)>>))

\* C20: normalization is format-independent: for the same record, the one-row table
\* and the equivalent JSON object are either both skipped or both give the same
\* contract, for every synonym key and for malformed rates and spreads too.
C20_FormatIndependent ==
    (batch.table.done /\ batch.json.done) => batch.table.swaps = batch.json.swaps

\* The notional text of a row is a number.
C17_numeric(row) == row.notional_amount # "invalid_notional"

\* The id, counterparty and notional of the rows with a numeric notional, in the
\* order of the file.
RECURSIVE C17_valid_rows(_)
C17_valid_rows(rows) ==
    IF rows = <<>> THEN <<>>
    ELSE (IF C17_numeric(Head(rows))
          THEN <<<<Head(rows).contract_id, Head(rows).counterparty,
                   float(Head(rows).notional_amount)>>>>
          ELSE <<>>) \o C17_valid_rows(Tail(rows))

C17_loaded ==
    [i \in 1..Len(batch.loaded_swaps) |->
        <<batch.loaded_swaps[i].contract_id, batch.loaded_swaps[i].counterparty,
          batch.loaded_swaps[i].notional_amount>>]

\* The last returned contract with the given id.
C17_last(contract_id) ==
    LET at == Max({i \in 1..Len(batch.loaded_swaps) :
                      batch.loaded_swaps[i].contract_id = contract_id})
    IN  batch.loaded_swaps[at]

\* C17: in a tabular file, a row whose notional_amount is not a number is skipped
\* and the call returns normally; the contracts returned are exactly the other rows,
\* in order, and exactly those are persisted: the swaps table holds one row for each
\* returned contract id, with the notional and the counterparty of the last
\* returned contract of that id.
C17_MalformedNotionalRowSkipped ==
    batch.done =>
        /\ ret.status = "ok"
        /\ C17_loaded = C17_valid_rows(batch.rows)
        /\ {x.contract_id : x \in swaps}
               = {batch.loaded_swaps[i].contract_id : i \in 1..Len(batch.loaded_swaps)}
        /\ \A x \in swaps :
              /\ \A y \in swaps : y.contract_id = x.contract_id => y = x
              /\ x.notional_amount = C17_last(x.contract_id).notional_amount
              /\ \E c \in counterparties :
                    /\ c.id = x.counterparty_id
                    /\ c.name = chars(C17_last(x.contract_id).counterparty)

\* C25: the limiter never grants more than its budget. Under every interleaving of
\* acquire calls the token count stays within [0, max_requests]; the acquires that
\* have returned never exceed max_requests plus one for each token refilled by the
\* time elapsed (so at most max_requests return while no time passes); and a thread
\* that sleeps holds the lock, found less than a whole token, and sleeps exactly the
\* time that refills the missing part.
C25_NeverMoreThanBudget ==
    /\ limiter.tokens \in 0..max_tokens
    /\ limiter.last_update <= limiter.now
    /\ limiter.granted * one_token + limiter.tokens <= max_tokens + limiter.last_update
    /\ \A t \in Threads :
          limiter.pc[t] \in {"loop", "sleep"} => limiter.lock = t
    /\ \A t \in Threads :
          limiter.pc[t] = "sleep" =>
              /\ limiter.tokens < one_token
              /\ limiter.wake[t] = limiter.last_update + (one_token - limiter.tokens)

\* C25 witness: with max_requests = 2, the third acquire has returned at the
\* earliest time possible, after one sleep of half the window over max_requests
\* (Granularity ticks, the test's 0.5 s).
C25_Witness ==
    /\ limiter.granted = 3
    /\ limiter.now = Granularity
    /\ \E t \in Threads : limiter.slept[t] = Granularity

\* The sum of the values of a breakdown over the given keys.
RECURSIVE C22_sum_values(_, _)
C22_sum_values(breakdown, keys) ==
    IF keys = {} THEN 0
    ELSE LET k == CHOOSE x \in keys : TRUE
         IN  breakdown[k] + C22_sum_values(breakdown, keys \ {k})

C22_partitions(breakdown, total) ==
    C22_sum_values(breakdown, DOMAIN breakdown) = total

RECURSIVE C22_sum_notional(_)
C22_sum_notional(entity_swaps) ==
    IF entity_swaps = <<>> THEN 0
    ELSE Head(entity_swaps).notional_amount + C22_sum_notional(Tail(entity_swaps))

C24_narrative_unavailable ==
    \/ ~analyzer.service.up
    \/ ~analyzer.service.has_model
    \/ analyzer.service.raises
    \/ analyzer.service.post # "200"

\* C24: generate_risk_report(include_analysis = TRUE) and explain_swap never fail
\* because of the narrative collaborator: when the service is not running, the
\* model is missing, or generate returns None, raises or times out, the caller
\* returns, with an explicit message in place of the narrative.
C24_NarrativeFailureNeverFatal ==
    (/\ analyzer.kind = "narrative" /\ analyzer.done /\ analyzer.found
     /\ (analyzer.call = "generate_risk_report" => analyzer.include_analysis)
     /\ C24_narrative_unavailable)
        => analyzer.answer \notin {Raised, NoText, Narrative}

\* The contract of the last file loaded.
C21_loaded == analyzer._loaded_swaps[Len(analyzer._loaded_swaps)]

\* The obligations persisted for the contract, as <<type, amount>> pairs, and the
\* types of the triggers persisted for them.
C21_obligations ==
    {<<o.obligation_type, o.amount>> : o \in
        UNION {obligations_of(s.id) : s \in swap_by_contract_id(C21_loaded.contract_id)}}

C21_triggers ==
    {t.trigger_type : t \in UNION {triggers_of(o.id) : o \in
        UNION {obligations_of(s.id) : s \in swap_by_contract_id(C21_loaded.contract_id)}}}

\* C21: once the single CREDIT_DEFAULT record CDS1 (GS, GME, 1,000,000) has been
\* ingested by a new analyzer with saving enabled, there is exactly 1 persisted
\* contract, with 2 obligations (premium_payment of 10,000 and protection_payment
\* of 1,000,000) and 2 triggers (time_based and credit_event), and
\* calculate_exposure("GME") reports total_notional 1,000,000 and num_swaps 1.
C21_EndToEndScenario ==
    (/\ analyzer.kind = "analyzer"
     /\ analyzer.answer.call = "load_swaps_from_file"
     /\ analyzer.answer.status = "save_to_db"
     /\ ret.op = "init"
     /\ Len(analyzer._loaded_swaps) = 1
     /\ C21_loaded.notional_amount = <<1000000, 1>>)
        => /\ Cardinality(swaps) = 1
           /\ Cardinality(swap_by_contract_id(C21_loaded.contract_id)) = 1
           /\ Cardinality(obligations) = 2
           /\ C21_obligations = {<<"premium_payment", <<10000, 1>>>>,
                                 <<"protection_payment", <<1000000, 1>>>>}
           /\ Cardinality(triggers) = 2
           /\ C21_triggers = {"time_based", "credit_event"}
           /\ exposure_answer("calculate_exposure", analyzer._loaded_swaps, GME_upper)
                 = Answer("calculate_exposure", GME_upper, "exposure", 1000000, 1)

\* A loaded contract matches the name: its reference entity contains it, whatever
\* the case; or its counterparty is the name, whatever the case.
C23_entity_matches(name) ==
    \E i \in DOMAIN analyzer._loaded_swaps :
        contains(lower(chars(analyzer._loaded_swaps[i].reference_entity)), lower(name))

C23_counterparty_matches(name) ==
    \E i \in DOMAIN analyzer._loaded_swaps :
        lower(chars(analyzer._loaded_swaps[i].counterparty)) = lower(name)

\* C23: when no contract matches the queried name, calculate_exposure returns the
\* empty result, generate_risk_report returns the error "No swaps found for
\* reference entity" and analyze_counterparty_risk returns the error "No swaps
\* found for counterparty"; none of them raises.
C23_NoMatchIsNoData ==
    analyzer.kind = "analyzer" =>
        /\ (analyzer.answer.call = "calculate_exposure"
              /\ ~C23_entity_matches(analyzer.answer.arg))
             => analyzer.answer.status = "{}"
        /\ (analyzer.answer.call = "generate_risk_report"
              /\ ~C23_entity_matches(analyzer.answer.arg))
             => analyzer.answer.status = "error: No swaps found for reference entity"
        /\ (analyzer.answer.call = "analyze_counterparty_risk"
              /\ ~C23_counterparty_matches(analyzer.answer.arg))
             => analyzer.answer.status = "error: No swaps found for counterparty"

\* C23 witness: with a GME contract loaded and a contract persisted, a report was
\* asked for IBM and gave the error.
C23_Witness ==
    /\ analyzer.kind = "analyzer"
    /\ analyzer._loaded_swaps # <<>>
    /\ swaps # {}
    /\ analyzer.answer.call = "generate_risk_report"
    /\ analyzer.answer.arg = IBM_upper
    /\ analyzer.answer.status = "error: No swaps found for reference entity"

\* C26: a read of analyzer.swaps is served from the cached snapshot only if no
\* write has completed since the snapshot was taken.
C26_NoStaleCacheRead ==
    analyzer.kind = "analyzer" => ~(analyzer.hit /\ analyzer.stale)

\* C27: however often the steps of the per-contract sequence are run again for a
\* persisted contract, no derived row is duplicated: a contract has at most one
\* obligation of a type, an obligation at most one trigger of a type, and a
\* contract at most one instrument on a security.
C27_NoDerivedRowDuplicated ==
    /\ \A o1, o2 \in obligations :
          (o1.swap_id = o2.swap_id /\ o1.obligation_type = o2.obligation_type) => o1 = o2
    /\ \A t1, t2 \in triggers :
          (t1.obligation_id = t2.obligation_id /\ t1.trigger_type = t2.trigger_type)
             => t1 = t2
    /\ \A u1, u2 \in instruments :
          (u1.swap_id = u2.swap_id /\ u1.security_id = u2.security_id) => u1 = u2

\* The order of two dates.
C30_le(a, b) ==
    \/ a.year < b.year
    \/ a.year = b.year /\ a.month < b.month
    \/ a.year = b.year /\ a.month = b.month /\ a.day <= b.day

\* The contracts the normalizer emitted for the record, from the table and from
\* the JSON object.
C30_emitted ==
    IF batch.kind = "record"
    THEN {batch.table.swaps[i] : i \in DOMAIN batch.table.swaps}
            \cup {batch.json.swaps[i] : i \in DOMAIN batch.json.swaps}
    ELSE {}

\* C30: every contract emitted by the normalizer satisfies effective_date <=
\* maturity_date: a record whose maturity date precedes its effective date is
\* never accepted.
C30_EffectiveNotAfterMaturity ==
    \A swap \in C30_emitted :
        C30_le(date(swap.effective_date), date(swap.maturity_date))

\* save_swap can persist the contract: it has a counterparty and a notional.
C28_ok(swap) == chars(swap.counterparty) # Falsy /\ swap.notional_amount # NoRate

C28_good == {i \in DOMAIN batch.swaps : C28_ok(batch.swaps[i])}

\* The names the resolver had to create: of the first contract of the batch with
\* that name, whatever the case, when no counterparty had it before.
C28_resolved ==
    {chars(batch.swaps[i].counterparty) : i \in
        {i \in DOMAIN batch.swaps :
            /\ \A c \in batch.known :
                  lower(c.name) # lower(chars(batch.swaps[i].counterparty))
            /\ \A j \in 1..(i - 1) :
                  lower(chars(batch.swaps[j].counterparty))
                     # lower(chars(batch.swaps[i].counterparty))}}

\* C28: after _save_swaps_to_db, a contract whose save_swap failed has left no
\* contract row and no counterparty row that save_swap created for it, it is not
\* counted in saved_count, and every other contract of the batch is saved.
C28_FailureConfinedToContract ==
    (batch.kind = "batch" /\ batch.done) =>
        /\ ret.id = Cardinality(C28_good)
        /\ \A s \in swaps : \E i \in C28_good : batch.swaps[i].contract_id = s.contract_id
        /\ \A i \in C28_good : \E s \in swaps :
              /\ s.contract_id = batch.swaps[i].contract_id
              /\ \E j \in C28_good :
                    /\ j >= i
                    /\ batch.swaps[j].contract_id = s.contract_id
                    /\ s.notional_amount = batch.swaps[j].notional_amount
        /\ {c.name : c \in counterparties} \subseteq
              {c.name : c \in batch.known}
                 \cup {chars(batch.swaps[i].counterparty) : i \in C28_good}
                 \cup C28_resolved

\* C28 witness: GS was known; the first contract, of "gs", has no notional and its
\* save_swap, which flushed a row "gs", failed; the second, of "GS", was saved.
C28_Witness ==
    /\ batch.kind = "batch" /\ batch.done
    /\ batch.known # {}
    /\ batch.swaps[1].counterparty = "gs" /\ batch.swaps[1].notional_amount = NoRate
    /\ batch.swaps[2].counterparty = "GS" /\ batch.swaps[2].notional_amount # NoRate
    /\ batch.swaps[1].contract_id # batch.swaps[2].contract_id
    /\ ret.id = 1
    /\ Cardinality(swaps) = 1
    /\ \A c \in counterparties : c.name = GS_upper

\* The value a column has when the contract leaves the field empty.
C29_empty ==
    [fixed_rate |-> NoRate, floating_rate_index |-> Missing, additional_terms |-> "{}"]

\* The value of a field of the new contract.
C29_new(field) ==
    IF field \in DOMAIN batch.swap_data THEN batch.swap_data[field] ELSE C29_empty[field]

\* C29: after save_swap for an existing contract_id every contract field of the row
\* equals that of the new contract (the counterparty reference, an optional rate
\* or index the new contract leaves empty and the free-form terms included),
\* updated_at is refreshed, and the row keeps its id and created_at.
C29_UpsertReplacesEveryField ==
    (batch.kind = "upsert" /\ batch.done) =>
        /\ \A field \in {"notional_amount", "fixed_rate", "floating_rate_index",
                         "additional_terms"} : batch.row[field] = C29_new(field)
        /\ batch.row.counterparty_id = batch.counterparty_id
        /\ batch.row.updated_at = batch.now
        /\ batch.row.id = batch.previous.id
        /\ batch.row.created_at = batch.previous.created_at

=============================================================================
